---- MODULE Spec2Model ----
(***************************************************************************)
(* sgs-cli: the cleanup registry (internal/cleanup/cleanup.go) and the     *)
(* volume copy protocol (internal/volume/volume.go, Copy / copySameNode /  *)
(* copyCrossNode) run by `sgs cp` (internal/cmd/set.go, runCp).            *)
(*                                                                         *)
(* Two specifications share the registry operators:                        *)
(*   SpecReg : two threads calling Register / Unregister / RunAll.         *)
(*   Spec    : one `sgs cp` process: the main goroutine running Copy, the  *)
(*             signal goroutine of InterruptibleContext, the two stream    *)
(*             goroutines of copyCrossNode, and the cluster.               *)
(***************************************************************************)
EXTENDS Integers, Sequences, FiniteSets, TLC

VARIABLES
    \* ---- package cleanup (cleanup.go:16-21) ----
    cleanups,      \* []CleanupFunc; an entry is the name of what it deletes
    interrupted,   \* bool
    done,          \* chan struct{}: "nil", "open" or "closed"
    fns,           \* RunAll's local copy, per calling thread
    \* ---- bookkeeping of RunAll calls (observation only) ----
    snap,          \* per thread: the sequence the running RunAll took
    ran,           \* per thread: what the running RunAll has invoked so far
    runLog,        \* every invocation of a cleanup function, in order
    \* ---- SpecReg harness ----
    tpc,           \* per harness thread: "idle" or "running"
    nextId,        \* id of the next function registered by the harness
    regAfter,      \* per thread: ids registered after its RunAll's snapshot
    unregCount,    \* Unregister calls made by the harness
    runAllCount,   \* RunAll calls started by the harness
    lastOp,        \* the last registry call of the harness and the list before it
    \* ---- the cluster (what the Kubernetes API server holds) ----
    pvc,           \* PersistentVolumeClaims by name
    pod,           \* Pods by name: "absent" or the pod's phase
    wsNodeGroup,   \* node group of the current workspace ("" = unrestricted)
    \* ---- the `sgs cp` process ----
    opts,          \* volume.CopyOptions
    pc,            \* where the main goroutine is
    srcInfo,       \* Copy's srcInfo
    err,           \* the error the copy procedure returned to Copy
    ret,           \* what Copy returned: [val, via], val "none" while it runs
    ctxDone,       \* the context of InterruptibleContext is cancelled
    sigStopped,    \* signal.Stop(sigCh) was called
    hpc,           \* where the signal goroutine is
    exitCode,      \* -1 while the process runs, then its exit code
    \* ---- copyCrossNode's streaming phase ----
    spc,           \* source goroutine
    dpc,           \* destination goroutine
    toWrite,       \* chunks tar has still to write to the pipe
    pipe,          \* io.Pipe: "empty", "data" (a Write is pending), "closed"
    errChan,       \* buffered channel of results
    joined,        \* results the join loop has received
    \* ---- observation only ----
    created,       \* per resource: create requests that reached the server, and
                   \* whether one was accepted
    dels,          \* delete requests issued, per resource and issuer
    sigPhase,      \* pc of the main goroutine when the signal was received
    \* ---- what the later properties need of the pods and of the cleanup delete ----
    mounts,        \* per pod: the volume mounts of the pod spec it was created with
    podReason,     \* per pod: the terminated reason in the status of a Failed pod
    delErr,        \* what the cleanup Delete of volume.go:1157 returned
    \* ---- the command the process runs ----
    cmd,           \* "cp" (runCp), "create" (runCreateVolume), or the name of a harness
    copts,         \* volume.CreateOptions
    printed,       \* what the command has written to stdout
    \* ---- os/signal as InterruptibleContext uses it ----
    sigCh,         \* signals buffered in sigCh (capacity 1)
    sigCount,      \* signals sent to the process so far
    sigIgnored,    \* signal.Ignore was called
    runAllCalls,   \* RunAll calls made by the signal goroutine
    \* ---- session operations ----
    calls,         \* calls of the volume package started so far
    \* ---- the name functions ----
    args,          \* two (node name, volume name) pairs
    names          \* per pair: the names derived from it, <<>> before they are

regVars == <<cleanups, interrupted, done, fns, snap, ran, runLog>>
harnessVars == <<tpc, nextId, regAfter, unregCount, runAllCount, lastOp>>
clusterVars == <<pvc, pod, wsNodeGroup>>
procVars == <<opts, pc, srcInfo, err, ret, ctxDone, sigStopped, hpc, exitCode>>
streamVars == <<spc, dpc, toWrite, pipe, errChan, joined>>
obsVars == <<created, dels, sigPhase>>
auxVars == <<mounts, podReason, delErr>>
copyVars == <<clusterVars, procVars, streamVars, obsVars, auxVars>>
cmdVars == <<cmd, copts, printed>>
sigVars == <<sigCh, sigCount, sigIgnored, runAllCalls>>
nameVars == <<args, names>>
extVars == <<cmdVars, sigVars, calls, nameVars>>
vars == <<regVars, harnessVars, copyVars, extVars>>

\* ---- bounds of the harness ----
MaxReg == 3
MaxUnreg == 2
MaxRunAll == 2

HarnessThreads == {"t1", "t2"}
Threads == HarnessThreads \cup {"handler"}

Front(s) == SubSeq(s, 1, Len(s) - 1)
Last(s) == s[Len(s)]

(***************************************************************************)
(* package cleanup                                                         *)
(***************************************************************************)

\* Register (cleanup.go:25-29): append under the mutex.
Register(fn) == cleanups' = Append(cleanups, fn)

\* Mutant of Unregister: drops the oldest entry instead of the newest.
UnregisterOldest == cleanups' = IF Len(cleanups) > 0 THEN Tail(cleanups) ELSE cleanups

\* Unregister (cleanup.go:33-39): drop the last entry when there is one.
Unregister == cleanups' = IF Len(cleanups) > 0 THEN Front(cleanups) ELSE cleanups

\* Mutant of RunAllTake: copies the list and forgets to clear it.
RunAllTakeNoClear(t) ==
    /\ fns' = [fns EXCEPT ![t] = cleanups]
    /\ cleanups' = cleanups
    /\ snap' = [snap EXCEPT ![t] = cleanups]
    /\ ran' = [ran EXCEPT ![t] = <<>>]

\* RunAll, locked part (cleanup.go:43-47): copy the list, set it to nil.
RunAllTake(t) ==
    /\ fns' = [fns EXCEPT ![t] = cleanups]
    /\ cleanups' = <<>>
    /\ snap' = [snap EXCEPT ![t] = cleanups]
    /\ ran' = [ran EXCEPT ![t] = <<>>]

\* Mutant of RunAllPick: the loop runs from the first entry up.
RunAllPickFirst(s) == 1

\* RunAll, the index the loop is at (cleanup.go:51): i runs from len(fns)-1 down.
RunAllPick(s) == Len(s)

\* RunAll, one iteration of the loop (cleanup.go:51-53): invoke fns[i].
RunAllStep(t) ==
    /\ fns[t] # <<>>
    /\ LET i == RunAllPick(fns[t])
           f == fns[t][i]
       IN /\ fns' = [fns EXCEPT ![t] = [j \in 1..(Len(fns[t]) - 1) |->
                                           IF j < i THEN fns[t][j] ELSE fns[t][j + 1]]]
          /\ ran' = [ran EXCEPT ![t] = Append(ran[t], f)]
          /\ runLog' = Append(runLog, [by |-> t, fn |-> f])

\* WasInterrupted (cleanup.go:58-62)
WasInterrupted == interrupted

(***************************************************************************)
(* SpecReg: two threads using the registry                                 *)
(***************************************************************************)

InitRegistry ==
    /\ cleanups = <<>>
    /\ interrupted = FALSE
    /\ done = "nil"
    /\ fns = [t \in Threads |-> <<>>]
    /\ snap = [t \in Threads |-> <<>>]
    /\ ran = [t \in Threads |-> <<>>]
    /\ runLog = <<>>

InitHarness ==
    /\ tpc = [t \in HarnessThreads |-> "idle"]
    /\ nextId = 1
    /\ regAfter = [t \in HarnessThreads |-> {}]
    /\ unregCount = 0
    /\ runAllCount = 0
    /\ lastOp = [op |-> "none", before |-> <<>>]

CallRegister(t) ==
    /\ tpc[t] = "idle"
    /\ nextId <= MaxReg
    /\ Register(nextId)
    /\ nextId' = nextId + 1
    /\ regAfter' = [u \in HarnessThreads |->
                       IF tpc[u] = "running" THEN regAfter[u] \cup {nextId} ELSE regAfter[u]]
    /\ lastOp' = [op |-> "Register", before |-> cleanups]
    /\ UNCHANGED <<extVars, interrupted, done, fns, snap, ran, runLog, tpc, unregCount, runAllCount, copyVars>>

CallUnregister(t) ==
    /\ tpc[t] = "idle"
    /\ unregCount < MaxUnreg
    /\ Unregister
    /\ unregCount' = unregCount + 1
    /\ lastOp' = [op |-> "Unregister", before |-> cleanups]
    /\ UNCHANGED <<extVars, interrupted, done, fns, snap, ran, runLog, tpc, nextId, regAfter, runAllCount, copyVars>>

CallRunAll(t) ==
    /\ tpc[t] = "idle"
    /\ runAllCount < MaxRunAll
    /\ RunAllTake(t)
    /\ tpc' = [tpc EXCEPT ![t] = "running"]
    /\ regAfter' = [regAfter EXCEPT ![t] = {}]
    /\ runAllCount' = runAllCount + 1
    /\ lastOp' = [op |-> "RunAll", before |-> cleanups]
    /\ UNCHANGED <<extVars, interrupted, done, runLog, nextId, unregCount, copyVars>>

RunAllInvoke(t) ==
    /\ tpc[t] = "running"
    /\ RunAllStep(t)
    /\ UNCHANGED <<extVars, cleanups, interrupted, done, snap, harnessVars, copyVars>>

RunAllReturn(t) ==
    /\ tpc[t] = "running"
    /\ fns[t] = <<>>
    /\ tpc' = [tpc EXCEPT ![t] = "idle"]
    /\ UNCHANGED <<extVars, regVars, nextId, regAfter, unregCount, runAllCount, lastOp, copyVars>>

(***************************************************************************)
(* The cluster, as the copy protocol sees it                               *)
(***************************************************************************)

\* bound of the streaming phase: chunks the source tar writes to the pipe
MaxChunks == 1

Nodes == {"n1", "n2"}
NodeGroupLabel == [n \in Nodes |-> IF n = "n1" THEN "g1" ELSE "g2"]

\* pvcName (volume.go:100-102)
pvcName(nodeName, volumeName) == nodeName \o "-" \o volumeName

\* sessionPodName (volume.go:511-513)
sessionPodName(nodeName, volumeName) == nodeName \o "-" \o volumeName

srcPVCName == pvcName(opts.SrcNode, opts.SrcVolume)
dstPVCName == pvcName(opts.DstNode, opts.DstVolume)
\* podName of copySameNode (volume.go:1171)
copyPodName == "copy-" \o dstPVCName
\* srcPodName, dstPodName of copyCrossNode (volume.go:1293-1294)
srcPodName == "copy-src-" \o srcPVCName
dstPodName == "copy-dst-" \o dstPVCName

PVC(name) == [kind |-> "pvc", name |-> name]
Pod(name) == [kind |-> "pod", name |-> name]

NoPVC == [exists |-> FALSE, size |-> 0, ann |-> <<>>]

\* resource.Quantity.String() as Get uses it (volume.go:253-254): the canonical
\* spelling of a quantity held in Mi, <<number, suffix>>.
QuantityString(q) == IF q % 1024 = 0 THEN <<q \div 1024, "Gi">> ELSE <<q, "Mi">>

\* resource.MustParse (volume.go:1111)
MustParse(s) == IF s[2] = "Gi" THEN s[1] * 1024 ELSE s[1]

\* pvc.Annotations[sgs.AnnotationOSImage] (volume.go:240): a missing key reads "".
AnnotationOSImage(p) == IF p.ann = <<>> THEN "" ELSE p.ann[1]

\* Get (volume.go:231-268): the VolumeInfo fields Copy uses.
VolumeInfoOf(p) ==
    [Size |-> QuantityString(p.size),
     Image |-> AnnotationOSImage(p),
     IsOSVolume |-> AnnotationOSImage(p) # ""]

\* Mutant of CopyAnnotations: the image annotation is not carried over.
CopyAnnotationsNone(info) == <<>>

\* The annotations Copy gives the destination PVC (volume.go:1103, 1118-1120).
CopyAnnotations(info) ==
    IF info.IsOSVolume /\ info.Image # "" THEN <<info.Image>> ELSE <<>>

\* The destination PVC Copy builds (volume.go:1094-1120).
CopyPVCSpec(info) ==
    [exists |-> TRUE, size |-> MustParse(info.Size), ann |-> CopyAnnotations(info)]

\* workspace.CanAccessNode (unnamed/part_008:168-176)
CanAccessNode(workspaceNodeGroup, nodeGroupLabel) ==
    \/ workspaceNodeGroup = ""
    \/ workspaceNodeGroup = nodeGroupLabel

\* A request made with a cancelled context fails in the client and never reaches
\* the server.
CtxErr == ctxDone

Alive == exitCode = -1

Active(phase) == phase \in {"Pending", "ImagePullBackOff", "Running"}

NoDels == [main |-> 0, handler |-> 0]

\* The server handles a delete request for resource r issued by `by`.
ServeDelete(by, r) ==
    /\ dels' = [dels EXCEPT ![r] = [@ EXCEPT ![by] = @ + 1]]
    /\ IF r.kind = "pvc"
       THEN pvc' = [pvc EXCEPT ![r.name] = NoPVC] /\ UNCHANGED pod
       ELSE pod' = [pod EXCEPT ![r.name] = "absent"] /\ UNCHANGED pvc

\* The server fails a delete request for resource r issued by `by`: the request
\* is counted, the object stays.
RefuseDelete(by, r) ==
    /\ dels' = [dels EXCEPT ![r] = [@ EXCEPT ![by] = @ + 1]]
    /\ UNCHANGED <<extVars, pvc, pod>>

\* Mutant of copySameNodeMounts: the source is mounted writable.
copySameNodeMountsWritable(srcPVC, dstPVC) ==
    {[claim |-> srcPVC, readOnly |-> FALSE], [claim |-> dstPVC, readOnly |-> FALSE]}

\* The volumes of copySameNode's pod (volume.go:1202-1228): src read-only, dst not.
copySameNodeMounts(srcPVC, dstPVC) ==
    {[claim |-> srcPVC, readOnly |-> TRUE], [claim |-> dstPVC, readOnly |-> FALSE]}

\* The volume of a pod built by createCopyPod (volume.go:1410-1459).
createCopyPod(claim, readOnly) == {[claim |-> claim, readOnly |-> readOnly]}

\* Pods.Create stored the pod `name`: its spec is kept with it.
StoreSpec(name, spec) ==
    mounts' = IF pod'[name] # pod[name] THEN [mounts EXCEPT ![name] = spec] ELSE mounts

\* terminated reasons a Failed pod's container status can carry
TerminatedReasons == {"Error", "OOMKilled"}

(***************************************************************************)
(* Init: one `sgs cp <src> <dst>` about to call volume.Copy                *)
(***************************************************************************)

SrcSizes == {512, 2048}
SrcImages == {"", "ubuntu"}
DstChoices == {<<"n1", "a">>, <<"n1", "b">>, <<"n2", "a">>}

InitCopy ==
    \E dst \in DstChoices, srcExists \in BOOLEAN, dstExists \in BOOLEAN,
       size \in SrcSizes, image \in SrcImages,
       sess \in {"absent", "Running", "Succeeded"}, grp \in {"", "g1"} :
        LET o == [SrcNode |-> "n1", SrcVolume |-> "a", DstNode |-> dst[1], DstVolume |-> dst[2]]
            s == pvcName(o.SrcNode, o.SrcVolume)
            d == pvcName(o.DstNode, o.DstVolume)
            \* volume.Create stores the image annotation only when Image # "" (volume.go:294-298)
            srcPVC == [exists |-> TRUE, size |-> size,
                       ann |-> IF image # "" THEN <<image>> ELSE <<>>]
            pods == {sessionPodName(o.SrcNode, o.SrcVolume), "copy-" \o d,
                     "copy-src-" \o s, "copy-dst-" \o d, "bind-" \o d}
            res == {PVC(s), PVC(d)} \cup {Pod(n) : n \in pods}
        IN \* size and image are handled independently by Copy: the data volume
           \* takes the Mi size, the OS volume the Gi size
           /\ (image = "") <=> (size = 512)
           /\ opts = o
           /\ pvc = [n \in {s, d} |->
                        IF n = s /\ srcExists THEN srcPVC
                        ELSE IF n = d /\ n # s /\ dstExists THEN [srcPVC EXCEPT !.ann = <<>>]
                        ELSE NoPVC]
           /\ pod = [n \in pods |-> IF n = sessionPodName(o.SrcNode, o.SrcVolume) THEN sess ELSE "absent"]
           /\ wsNodeGroup = grp
           /\ created = [r \in res |-> [sent |-> 0, ok |-> FALSE]]
           /\ dels = [r \in res |-> NoDels]
           /\ mounts = [n \in pods |-> {}]
           /\ podReason = [n \in pods |-> ""]
    /\ srcInfo = VolumeInfoOf(NoPVC)
    /\ err = "nil"
    /\ ret = [val |-> "none", via |-> "none"]
    /\ ctxDone = FALSE
    /\ sigStopped = FALSE
    /\ hpc = "listen"
    /\ exitCode = -1
    /\ spc = "idle"
    /\ dpc = "idle"
    /\ toWrite = MaxChunks
    /\ pipe = "empty"
    /\ errChan = <<>>
    /\ joined = 0
    /\ sigPhase = "none"
    /\ delErr = "none"

\* sgs.DefaultStorageSize (constants.go:32), "10Gi"
DefaultStorageSize == <<10, "Gi">>

\* No signal has been sent, nothing is printed, no name is derived yet.
InitExt ==
    /\ printed = {}
    /\ sigCh = 0
    /\ sigCount = 0
    /\ sigIgnored = FALSE
    /\ runAllCalls = 0
    /\ calls = 0
    /\ args = <<>>
    /\ names = <<>>

\* runCp about to call volume.Copy (set.go:117-147)
InitCp ==
    /\ cmd = "cp"
    /\ pc = "validate"
    /\ copts = [NodeName |-> opts.DstNode, VolumeName |-> opts.DstVolume, Image |-> "",
                Size |-> DefaultStorageSize]

Init == InitRegistry /\ InitHarness /\ InitCopy /\ InitExt /\ InitCp

(***************************************************************************)
(* volume.Copy: the precondition checks                                    *)
(***************************************************************************)

\* Copy returns `val` (volume.go:1054, 1060, 1066, 1069, 1075, 1124, 1152, 1159, 1166)
Return(val, via) ==
    /\ ret' = [val |-> val, via |-> via]
    /\ pc' = "returned"

\* validateNodeAccess (volume.go:1023-1046, called at 1053)
CopyValidate ==
    /\ Alive /\ pc = "validate"
    /\ IF CtxErr THEN Return("failed to get workspace info", "precondition")
       ELSE IF ~CanAccessNode(wsNodeGroup, NodeGroupLabel[opts.DstNode])
            THEN Return("cannot access node", "precondition")
            ELSE pc' = "getSrc" /\ UNCHANGED ret
    /\ UNCHANGED <<extVars, auxVars, regVars, harnessVars, clusterVars, streamVars, obsVars,
                   opts, srcInfo, err, ctxDone, sigStopped, hpc, exitCode>>

\* srcInfo, err := Get(src) (volume.go:1058-1061)
CopyGetSrc ==
    /\ Alive /\ pc = "getSrc"
    /\ IF CtxErr \/ ~pvc[srcPVCName].exists
       THEN Return("source volume not found", "precondition") /\ UNCHANGED srcInfo
       ELSE /\ srcInfo' = VolumeInfoOf(pvc[srcPVCName])
            /\ pc' = "getMode"
            /\ UNCHANGED ret
    /\ UNCHANGED <<extVars, auxVars, regVars, harnessVars, clusterVars, streamVars, obsVars,
                   opts, err, ctxDone, sigStopped, hpc, exitCode>>

\* Mutant of GetSessionMode: reports no session whatever the pod's phase.
GetSessionModeNone(phase) == ""

\* GetSessionMode (volume.go:516-547): "" when there is no pod or it has terminated.
GetSessionMode(phase) == IF Active(phase) THEN "session" ELSE ""

\* srcMode, err := GetSessionMode(src) (volume.go:1064-1070)
CopyGetMode ==
    /\ Alive /\ pc = "getMode"
    /\ IF CtxErr THEN Return("failed to check source session", "precondition")
       ELSE IF GetSessionMode(pod[sessionPodName(opts.SrcNode, opts.SrcVolume)]) # ""
            THEN Return("source volume has an active session", "precondition")
            ELSE pc' = "getDst" /\ UNCHANGED ret
    /\ UNCHANGED <<extVars, auxVars, regVars, harnessVars, clusterVars, streamVars, obsVars,
                   opts, srcInfo, err, ctxDone, sigStopped, hpc, exitCode>>

\* _, err = Get(dst); err == nil means the destination exists (volume.go:1073-1076)
CopyGetDst ==
    /\ Alive /\ pc = "getDst"
    /\ IF ~CtxErr /\ pvc[dstPVCName].exists
       THEN Return("destination volume already exists", "precondition")
       ELSE pc' = "createPVC" /\ UNCHANGED ret
    /\ UNCHANGED <<extVars, auxVars, regVars, harnessVars, clusterVars, streamVars, obsVars,
                   opts, srcInfo, err, ctxDone, sigStopped, hpc, exitCode>>

(***************************************************************************)
(* volume.Copy: provisioning, dispatch and the three ways out              *)
(***************************************************************************)

\* PersistentVolumeClaims.Create for the destination (volume.go:1122-1125)
CopyCreatePVC ==
    /\ Alive /\ pc = "createPVC"
    /\ IF CtxErr
       THEN Return("create destination volume", "create") /\ UNCHANGED <<pvc, created>>
       ELSE \E accepted \in (IF pvc[dstPVCName].exists THEN {FALSE} ELSE BOOLEAN) :
               /\ created' = [created EXCEPT ![PVC(dstPVCName)] =
                                  [sent |-> @.sent + 1, ok |-> accepted]]
               /\ IF accepted
                  THEN /\ pvc' = [pvc EXCEPT ![dstPVCName] = CopyPVCSpec(srcInfo)]
                       /\ pc' = "regPVC"
                       /\ UNCHANGED ret
                  ELSE Return("create destination volume", "create") /\ UNCHANGED pvc
    /\ UNCHANGED <<extVars, auxVars, regVars, harnessVars, pod, wsNodeGroup, streamVars, dels, sigPhase,
                   opts, srcInfo, err, ctxDone, sigStopped, hpc, exitCode>>

\* Mutant of CopyRegisterPVC: the dispatch without the Register.
CopyRegisterPVCSkip ==
    /\ Alive /\ pc = "regPVC"
    /\ pc' = IF opts.SrcNode = opts.DstNode THEN "sn_create" ELSE "cn_createSrc"
    /\ UNCHANGED <<extVars, auxVars, regVars, harnessVars, clusterVars,
                   streamVars, obsVars, opts, srcInfo, err, ret, ctxDone, sigStopped, hpc, exitCode>>

\* cleanup.Register for the destination PVC, then the dispatch (volume.go:1128-1146)
CopyRegisterPVC ==
    /\ Alive /\ pc = "regPVC"
    /\ Register(PVC(dstPVCName))
    /\ pc' = IF opts.SrcNode = opts.DstNode THEN "sn_create" ELSE "cn_createSrc"
    /\ UNCHANGED <<extVars, auxVars, interrupted, done, fns, snap, ran, runLog, harnessVars, clusterVars,
                   streamVars, obsVars, opts, srcInfo, err, ret, ctxDone, sigStopped, hpc, exitCode>>

\* if err != nil { if cleanup.WasInterrupted() ... } (volume.go:1148-1150, 1162)
CopyCheck ==
    /\ Alive /\ pc = "check"
    /\ pc' = IF err # "nil"
             THEN (IF WasInterrupted THEN "wfc" ELSE "f_unreg")
             ELSE "s_unreg"
    /\ UNCHANGED <<extVars, auxVars, regVars, harnessVars, clusterVars, streamVars, obsVars,
                   opts, srcInfo, err, ret, ctxDone, sigStopped, hpc, exitCode>>

\* WaitForCleanup, locked part (cleanup.go:66-72)
WaitForCleanupLock ==
    /\ Alive /\ pc = "wfc"
    /\ IF ~interrupted
       THEN Return("nil", "interrupt")
       ELSE pc' = "wfc_recv" /\ UNCHANGED ret
    /\ UNCHANGED <<extVars, auxVars, regVars, harnessVars, clusterVars, streamVars, obsVars,
                   opts, srcInfo, err, ctxDone, sigStopped, hpc, exitCode>>

\* Mutant of WaitForCleanupRecv: returns without receiving from the channel.
WaitForCleanupRecvNoWait ==
    /\ Alive /\ pc = "wfc_recv"
    /\ Return("nil", "interrupt")
    /\ UNCHANGED <<extVars, auxVars, regVars, harnessVars, clusterVars, streamVars, obsVars,
                   opts, srcInfo, err, ctxDone, sigStopped, hpc, exitCode>>

\* WaitForCleanup, <-ch (cleanup.go:73-75), then return nil (volume.go:1152)
WaitForCleanupRecv ==
    /\ Alive /\ pc = "wfc_recv"
    /\ done # "open"
    /\ Return("nil", "interrupt")
    /\ UNCHANGED <<extVars, auxVars, regVars, harnessVars, clusterVars, streamVars, obsVars,
                   opts, srcInfo, err, ctxDone, sigStopped, hpc, exitCode>>

\* cleanup.Unregister() of the ordinary failure path (volume.go:1155)
CopyFailUnregister ==
    /\ Alive /\ pc = "f_unreg"
    /\ Unregister
    /\ pc' = "f_del"
    /\ UNCHANGED <<extVars, auxVars, interrupted, done, fns, snap, ran, runLog, harnessVars, clusterVars,
                   streamVars, obsVars, opts, srcInfo, err, ret, ctxDone, sigStopped, hpc, exitCode>>

\* Mutant of CopyFailResult: a failed cleanup Delete replaces the error returned.
CopyFailResultPropagate(e, d) == IF d # "nil" THEN d ELSE e

\* `_ = ...Delete(...)` then `return err` (volume.go:1157-1159): the Delete's
\* error d is dropped, the copy procedure's error e is what Copy returns.
CopyFailResult(e, d) == e

\* Delete of the destination PVC with context.Background(), return err
\* (volume.go:1157-1159). The server may fail this request.
CopyFailDelete ==
    /\ Alive /\ pc = "f_del"
    /\ \E d \in {"nil", "delete failed"} :
          /\ delErr' = d
          /\ IF d = "nil" THEN ServeDelete("main", PVC(dstPVCName))
                          ELSE RefuseDelete("main", PVC(dstPVCName))
          /\ Return(CopyFailResult(err, d), "failure")
    /\ UNCHANGED <<extVars, mounts, podReason, regVars, harnessVars, wsNodeGroup, streamVars, created, sigPhase,
                   opts, srcInfo, err, ctxDone, sigStopped, hpc, exitCode>>

\* Success: cleanup.Unregister(), the message, return nil (volume.go:1163-1166)
CopySuccessUnregister ==
    /\ Alive /\ pc = "s_unreg"
    /\ Unregister
    /\ Return("nil", "success")
    /\ UNCHANGED <<extVars, auxVars, interrupted, done, fns, snap, ran, runLog, harnessVars, clusterVars,
                   streamVars, obsVars, opts, srcInfo, err, ctxDone, sigStopped, hpc, exitCode>>

(***************************************************************************)
(* copySameNode                                                            *)
(***************************************************************************)

\* Pods.Create with ctx; on failure the procedure returns before any defer is set.
CreatePod(name, okpc, failpc, msg) ==
    IF CtxErr
    THEN /\ err' = msg /\ pc' = failpc
         /\ UNCHANGED <<pod, created>>
    ELSE \E accepted \in BOOLEAN :
            /\ created' = [created EXCEPT ![Pod(name)] = [sent |-> @.sent + 1, ok |-> accepted]]
            /\ IF accepted
               THEN /\ pod' = [pod EXCEPT ![name] = "Pending"]
                    /\ pc' = okpc
                    /\ UNCHANGED err
               ELSE /\ err' = msg /\ pc' = failpc
                    /\ UNCHANGED pod

\* Pods.Create (volume.go:1233-1236)
SnCreatePod ==
    /\ Alive /\ pc = "sn_create"
    /\ CreatePod(copyPodName, "sn_register", "check", "failed to create copy pod")
    /\ StoreSpec(copyPodName, copySameNodeMounts(srcPVCName, dstPVCName))
    /\ UNCHANGED <<extVars, podReason, delErr, regVars, harnessVars, pvc, wsNodeGroup, streamVars, dels, sigPhase,
                   opts, srcInfo, ret, ctxDone, sigStopped, hpc, exitCode>>

\* cleanup.Register for the copy pod; the defer is set (volume.go:1238-1249)
SnRegister ==
    /\ Alive /\ pc = "sn_register"
    /\ Register(Pod(copyPodName))
    /\ pc' = "sn_wait"
    /\ UNCHANGED <<extVars, auxVars, interrupted, done, fns, snap, ran, runLog, harnessVars, clusterVars,
                   streamVars, obsVars, opts, srcInfo, err, ret, ctxDone, sigStopped, hpc, exitCode>>

\* waitForCopyPod (volume.go:1462-1511): what one poll returns, "" to keep polling.
\* A poll under a cancelled context fails in Get or in the select after it.
waitForCopyPod(phase) ==
    IF CtxErr THEN "context canceled"
    ELSE IF phase = "absent" THEN "failed to get copy pod"
    ELSE IF phase = "Succeeded" THEN "nil"
    ELSE IF phase = "Failed" THEN "copy pod failed"
    ELSE IF phase = "ImagePullBackOff" THEN "failed to pull image"
    ELSE ""

\* return waitForCopyPod(...) (volume.go:1252); the deadline can pass at any poll.
SnWait ==
    /\ Alive /\ pc = "sn_wait"
    /\ LET r == waitForCopyPod(pod[copyPodName])
       IN err' = IF r = "" THEN "timeout waiting for copy to complete" ELSE r
    /\ pc' = "sn_defer_unreg"
    /\ UNCHANGED <<extVars, auxVars, regVars, harnessVars, clusterVars, streamVars, obsVars,
                   opts, srcInfo, ret, ctxDone, sigStopped, hpc, exitCode>>

\* deferred cleanup.Unregister() (volume.go:1247)
SnDeferUnregister ==
    /\ Alive /\ pc = "sn_defer_unreg"
    /\ Unregister
    /\ pc' = "sn_defer_del"
    /\ UNCHANGED <<extVars, auxVars, interrupted, done, fns, snap, ran, runLog, harnessVars, clusterVars,
                   streamVars, obsVars, opts, srcInfo, err, ret, ctxDone, sigStopped, hpc, exitCode>>

\* Mutant of SnDeferDelete: the defer returns without deleting the pod.
SnDeferDeleteSkip ==
    /\ Alive /\ pc = "sn_defer_del"
    /\ pc' = "check"
    /\ UNCHANGED <<extVars, auxVars, regVars, harnessVars, clusterVars, streamVars, obsVars,
                   opts, srcInfo, err, ret, ctxDone, sigStopped, hpc, exitCode>>

\* deferred Pods.Delete with context.Background() (volume.go:1248)
SnDeferDelete ==
    /\ Alive /\ pc = "sn_defer_del"
    /\ ServeDelete("main", Pod(copyPodName))
    /\ pc' = "check"
    /\ UNCHANGED <<extVars, auxVars, regVars, harnessVars, wsNodeGroup, streamVars, created, sigPhase,
                   opts, srcInfo, err, ret, ctxDone, sigStopped, hpc, exitCode>>

(***************************************************************************)
(* copyCrossNode                                                           *)
(***************************************************************************)

\* Create of the source reader pod (volume.go:1299-1303)
CnCreateSrc ==
    /\ Alive /\ pc = "cn_createSrc"
    /\ CreatePod(srcPodName, "cn_regSrc", "check", "failed to create source pod")
    /\ StoreSpec(srcPodName, createCopyPod(srcPVCName, TRUE))
    /\ UNCHANGED <<extVars, podReason, delErr, regVars, harnessVars, pvc, wsNodeGroup, streamVars, dels, sigPhase,
                   opts, srcInfo, ret, ctxDone, sigStopped, hpc, exitCode>>

\* cleanup.Register for the source pod; first defer set (volume.go:1305-1316)
CnRegisterSrc ==
    /\ Alive /\ pc = "cn_regSrc"
    /\ Register(Pod(srcPodName))
    /\ pc' = "cn_createDst"
    /\ UNCHANGED <<extVars, auxVars, interrupted, done, fns, snap, ran, runLog, harnessVars, clusterVars,
                   streamVars, obsVars, opts, srcInfo, err, ret, ctxDone, sigStopped, hpc, exitCode>>

\* Create of the destination writer pod (volume.go:1319-1323); a failure runs the first defer
CnCreateDst ==
    /\ Alive /\ pc = "cn_createDst"
    /\ CreatePod(dstPodName, "cn_regDst", "cn_d1_unreg", "failed to create destination pod")
    /\ StoreSpec(dstPodName, createCopyPod(dstPVCName, FALSE))
    /\ UNCHANGED <<extVars, podReason, delErr, regVars, harnessVars, pvc, wsNodeGroup, streamVars, dels, sigPhase,
                   opts, srcInfo, ret, ctxDone, sigStopped, hpc, exitCode>>

\* cleanup.Register for the destination pod; second defer set (volume.go:1325-1336)
CnRegisterDst ==
    /\ Alive /\ pc = "cn_regDst"
    /\ Register(Pod(dstPodName))
    /\ pc' = "cn_waitSrc"
    /\ UNCHANGED <<extVars, auxVars, interrupted, done, fns, snap, ran, runLog, harnessVars, clusterVars,
                   streamVars, obsVars, opts, srcInfo, err, ret, ctxDone, sigStopped, hpc, exitCode>>

\* waitForPodRunning (volume.go:1514-1557): what one poll returns, "" to keep polling.
waitForPodRunning(phase) ==
    IF CtxErr THEN "context canceled"
    ELSE IF phase = "absent" THEN "failed to get pod"
    ELSE IF phase = "Running" THEN "nil"
    ELSE IF phase = "Failed" THEN "pod failed"
    ELSE IF phase = "ImagePullBackOff" THEN "failed to pull image"
    ELSE ""

\* Mutant of WaitRunning: a failed wait returns without running the deferred
\* Unregister and Delete of the two pods.
WaitRunningNoDefer(name, okpc) ==
    LET r == waitForPodRunning(pod[name])
    IN IF r = "nil"
       THEN pc' = okpc /\ UNCHANGED err
       ELSE /\ err' = IF r = "" THEN "timeout waiting for pod to start" ELSE r
            /\ pc' = "check"

\* One wait of copyCrossNode (volume.go:1340-1347); the deadline can pass at any poll.
WaitRunning(name, okpc) ==
    LET r == waitForPodRunning(pod[name])
    IN IF r = "nil"
       THEN pc' = okpc /\ UNCHANGED err
       ELSE /\ err' = IF r = "" THEN "timeout waiting for pod to start" ELSE r
            /\ pc' = "cn_d2_unreg"

CnWaitSrc ==
    /\ Alive /\ pc = "cn_waitSrc"
    /\ WaitRunning(srcPodName, "cn_waitDst")
    /\ UNCHANGED <<extVars, auxVars, regVars, harnessVars, clusterVars, streamVars, obsVars,
                   opts, srcInfo, ret, ctxDone, sigStopped, hpc, exitCode>>

CnWaitDst ==
    /\ Alive /\ pc = "cn_waitDst"
    /\ WaitRunning(dstPodName, "cn_start")
    /\ UNCHANGED <<extVars, auxVars, regVars, harnessVars, clusterVars, streamVars, obsVars,
                   opts, srcInfo, ret, ctxDone, sigStopped, hpc, exitCode>>

\* io.Pipe(), errChan, the two go statements (volume.go:1354-1394)
CnStart ==
    /\ Alive /\ pc = "cn_start"
    /\ spc' = "exec" /\ dpc' = "exec"
    /\ pc' = "cn_join"
    /\ UNCHANGED <<extVars, auxVars, regVars, harnessVars, clusterVars, obsVars, toWrite, pipe, errChan, joined,
                   opts, srcInfo, err, ret, ctxDone, sigStopped, hpc, exitCode>>

\* results the join loop waits for (volume.go:1397)
JoinCount == 2

\* for i := 0; i < 2; i++ { if err := <-errChan; err != nil { return } } (volume.go:1397-1406)
CnJoin ==
    /\ Alive /\ pc = "cn_join"
    /\ errChan # <<>>
    /\ errChan' = Tail(errChan)
    /\ IF Head(errChan) # "nil"
       THEN /\ err' = "copy stream failed"
            /\ pc' = "cn_d2_unreg"
            /\ UNCHANGED joined
       ELSE /\ joined' = joined + 1
            /\ IF joined + 1 = JoinCount
               THEN err' = "nil" /\ pc' = "cn_d2_unreg"
               ELSE UNCHANGED <<err, pc>>
    /\ UNCHANGED <<extVars, auxVars, regVars, harnessVars, clusterVars, obsVars, spc, dpc, toWrite, pipe,
                   opts, srcInfo, ret, ctxDone, sigStopped, hpc, exitCode>>

\* second defer: cleanup.Unregister() (volume.go:1334)
CnDeferDstUnregister ==
    /\ Alive /\ pc = "cn_d2_unreg"
    /\ Unregister
    /\ pc' = "cn_d2_del"
    /\ UNCHANGED <<extVars, auxVars, interrupted, done, fns, snap, ran, runLog, harnessVars, clusterVars,
                   streamVars, obsVars, opts, srcInfo, err, ret, ctxDone, sigStopped, hpc, exitCode>>

\* second defer: Delete of the destination pod with context.Background() (volume.go:1335)
CnDeferDstDelete ==
    /\ Alive /\ pc = "cn_d2_del"
    /\ ServeDelete("main", Pod(dstPodName))
    /\ pc' = "cn_d1_unreg"
    /\ UNCHANGED <<extVars, auxVars, regVars, harnessVars, wsNodeGroup, streamVars, created, sigPhase,
                   opts, srcInfo, err, ret, ctxDone, sigStopped, hpc, exitCode>>

\* first defer: cleanup.Unregister() (volume.go:1314)
CnDeferSrcUnregister ==
    /\ Alive /\ pc = "cn_d1_unreg"
    /\ Unregister
    /\ pc' = "cn_d1_del"
    /\ UNCHANGED <<extVars, auxVars, interrupted, done, fns, snap, ran, runLog, harnessVars, clusterVars,
                   streamVars, obsVars, opts, srcInfo, err, ret, ctxDone, sigStopped, hpc, exitCode>>

\* first defer: Delete of the source pod with context.Background() (volume.go:1315)
CnDeferSrcDelete ==
    /\ Alive /\ pc = "cn_d1_del"
    /\ ServeDelete("main", Pod(srcPodName))
    /\ pc' = "check"
    /\ UNCHANGED <<extVars, auxVars, regVars, harnessVars, wsNodeGroup, streamVars, created, sigPhase,
                   opts, srcInfo, err, ret, ctxDone, sigStopped, hpc, exitCode>>

(***************************************************************************)
(* The two stream goroutines and the pipe between them                     *)
(***************************************************************************)

\* progress.Write -> pw.Write (volume.go:1262-1269, 1380): blocks until read
SrcWrite ==
    /\ Alive /\ spc = "exec"
    /\ toWrite > 0 /\ pipe = "empty"
    /\ pipe' = "data"
    /\ spc' = "writing"
    /\ UNCHANGED <<extVars, auxVars, regVars, harnessVars, clusterVars, procVars, obsVars,
                   dpc, toWrite, errChan, joined>>

\* the destination exec reads its stdin from pr (volume.go:1389)
DstRead ==
    /\ Alive /\ dpc = "exec"
    /\ pipe = "data"
    /\ pipe' = "empty"
    /\ toWrite' = toWrite - 1
    /\ spc' = IF spc = "writing" THEN "exec" ELSE spc
    /\ UNCHANGED <<extVars, auxVars, regVars, harnessVars, clusterVars, procVars, obsVars,
                   dpc, errChan, joined>>

\* execInPod of the source returns (volume.go:1380): nil once tar has written
\* everything, an error at any time it is not blocked in Write, or when ctx is cancelled.
SrcResults ==
    (IF spc = "exec" /\ toWrite = 0 THEN {"nil"} ELSE {})
    \cup (IF spc = "exec" \/ ctxDone THEN {"err"} ELSE {})

SrcReturn ==
    /\ Alive /\ spc \in {"exec", "writing"}
    /\ \E r \in SrcResults : spc' = "send_" \o r
    /\ UNCHANGED <<extVars, auxVars, regVars, harnessVars, clusterVars, procVars, obsVars,
                   dpc, toWrite, pipe, errChan, joined>>

\* errChan <- err (volume.go:1384)
SrcSend ==
    /\ Alive /\ spc \in {"send_nil", "send_err"}
    /\ errChan' = Append(errChan, IF spc = "send_nil" THEN "nil" ELSE "err")
    /\ spc' = "close"
    /\ UNCHANGED <<extVars, auxVars, regVars, harnessVars, clusterVars, procVars, obsVars,
                   dpc, toWrite, pipe, joined>>

\* defer pw.Close() (volume.go:1379)
SrcClose ==
    /\ Alive /\ spc = "close"
    /\ pipe' = "closed"
    /\ spc' = "done"
    /\ UNCHANGED <<extVars, auxVars, regVars, harnessVars, clusterVars, procVars, obsVars,
                   dpc, toWrite, errChan, joined>>

\* execInPod of the destination returns (volume.go:1389) what the remote
\* `tar xf` exits with: nil or an error, at any time, whether or not the
\* source is still writing (StreamWithContext does not wait for stdin to end).
DstResults == {"nil", "err"}

DstReturn ==
    /\ Alive /\ dpc = "exec"
    /\ \E r \in DstResults : dpc' = "send_" \o r
    /\ UNCHANGED <<extVars, auxVars, regVars, harnessVars, clusterVars, procVars, obsVars,
                   spc, toWrite, pipe, errChan, joined>>

\* errChan <- err (volume.go:1393)
DstSend ==
    /\ Alive /\ dpc \in {"send_nil", "send_err"}
    /\ errChan' = Append(errChan, IF dpc = "send_nil" THEN "nil" ELSE "err")
    /\ dpc' = "done"
    /\ UNCHANGED <<extVars, auxVars, regVars, harnessVars, clusterVars, procVars, obsVars,
                   spc, toWrite, pipe, joined>>

(***************************************************************************)
(* volume.Create (volume.go:273-379) run by `sgs create volume`            *)
(***************************************************************************)

createPVCName == pvcName(copts.NodeName, copts.VolumeName)
\* podName of createBinderPodSpec (volume.go:429)
binderPodName == "bind-" \o createPVCName

\* The PVC Create builds (volume.go:281-318): the image annotation only for an
\* OS volume.
CreatePVCSpec(o) ==
    [exists |-> TRUE, size |-> MustParse(o.Size),
     ann |-> IF o.Image # "" THEN <<o.Image>> ELSE <<>>]

\* A Delete made with the operation's context: under a cancelled context it
\* fails in the client, and Create drops the error (`_ =`).
DeleteWithCtx(by, r) ==
    IF CtxErr THEN UNCHANGED <<dels, pvc, pod>> ELSE ServeDelete(by, r)

\* validateNodeAccess (volume.go:275-277)
CreateValidate ==
    /\ Alive /\ pc = "c_validate"
    /\ IF CtxErr THEN Return("failed to get workspace info", "precondition")
       ELSE IF ~CanAccessNode(wsNodeGroup, NodeGroupLabel[copts.NodeName])
            THEN Return("cannot access node", "precondition")
            ELSE pc' = "c_createPVC" /\ UNCHANGED ret
    /\ UNCHANGED <<extVars, auxVars, regVars, harnessVars, clusterVars, streamVars, obsVars,
                   opts, srcInfo, err, ctxDone, sigStopped, hpc, exitCode>>

\* PersistentVolumeClaims.Create (volume.go:320-323); a data volume is done
\* here (volume.go:326, 378)
CreatePVC ==
    /\ Alive /\ pc = "c_createPVC"
    /\ IF CtxErr
       THEN Return("create volume", "create") /\ UNCHANGED <<pvc, created>>
       ELSE \E accepted \in (IF pvc[createPVCName].exists THEN {FALSE} ELSE BOOLEAN) :
               /\ created' = [created EXCEPT ![PVC(createPVCName)] =
                                  [sent |-> @.sent + 1, ok |-> accepted]]
               /\ IF accepted
                  THEN /\ pvc' = [pvc EXCEPT ![createPVCName] = CreatePVCSpec(copts)]
                       /\ IF copts.Image # ""
                          THEN pc' = "c_regPVC" /\ UNCHANGED ret
                          ELSE Return("nil", "success")
                  ELSE Return("create volume", "create") /\ UNCHANGED pvc
    /\ UNCHANGED <<extVars, auxVars, regVars, harnessVars, pod, wsNodeGroup, streamVars, dels, sigPhase,
                   opts, srcInfo, err, ctxDone, sigStopped, hpc, exitCode>>

\* cleanup.Register for the PVC (volume.go:328-335)
CreateRegisterPVC ==
    /\ Alive /\ pc = "c_regPVC"
    /\ Register(PVC(createPVCName))
    /\ pc' = "c_createPod"
    /\ UNCHANGED <<extVars, auxVars, interrupted, done, fns, snap, ran, runLog, harnessVars, clusterVars,
                   streamVars, obsVars, opts, srcInfo, err, ret, ctxDone, sigStopped, hpc, exitCode>>

\* Pods.Create for the binder pod (volume.go:337-340)
CreateBinderPod ==
    /\ Alive /\ pc = "c_createPod"
    /\ CreatePod(binderPodName, "c_regPod", "c_pf_unreg", "create volume binding")
    /\ StoreSpec(binderPodName, createCopyPod(createPVCName, FALSE))
    /\ UNCHANGED <<extVars, podReason, delErr, regVars, harnessVars, pvc, wsNodeGroup, streamVars, dels,
                   sigPhase, opts, srcInfo, ret, ctxDone, sigStopped, hpc, exitCode>>

\* Mutant of CreatePodFailUnregister: the failure path without the Unregister.
CreatePodFailUnregisterSkip ==
    /\ Alive /\ pc = "c_pf_unreg"
    /\ pc' = "c_pf_del"
    /\ UNCHANGED <<extVars, auxVars, regVars, harnessVars, clusterVars,
                   streamVars, obsVars, opts, srcInfo, err, ret, ctxDone, sigStopped, hpc, exitCode>>

\* pod creation failed: cleanup.Unregister() (volume.go:342)
CreatePodFailUnregister ==
    /\ Alive /\ pc = "c_pf_unreg"
    /\ Unregister
    /\ pc' = "c_pf_del"
    /\ UNCHANGED <<extVars, auxVars, interrupted, done, fns, snap, ran, runLog, harnessVars, clusterVars,
                   streamVars, obsVars, opts, srcInfo, err, ret, ctxDone, sigStopped, hpc, exitCode>>

\* pod creation failed: delete the PVC with ctx, return the error (volume.go:343-344)
CreatePodFailDelete ==
    /\ Alive /\ pc = "c_pf_del"
    /\ DeleteWithCtx("main", PVC(createPVCName))
    /\ Return(err, "failure")
    /\ UNCHANGED <<extVars, auxVars, regVars, harnessVars, wsNodeGroup, streamVars, created, sigPhase,
                   opts, srcInfo, err, ctxDone, sigStopped, hpc, exitCode>>

\* cleanup.Register for the binder pod (volume.go:348-355)
CreateRegisterPod ==
    /\ Alive /\ pc = "c_regPod"
    /\ Register(Pod(binderPodName))
    /\ pc' = "c_wait"
    /\ UNCHANGED <<extVars, auxVars, interrupted, done, fns, snap, ran, runLog, harnessVars, clusterVars,
                   streamVars, obsVars, opts, srcInfo, err, ret, ctxDone, sigStopped, hpc, exitCode>>

\* Mutant of waitForBinderPod: a poll that does not look at the context.
waitForBinderPodNoCtx(phase, reason) ==
    IF phase = "absent" THEN "failed to get binder pod"
    ELSE IF phase = "Succeeded" THEN "nil"
    ELSE IF phase = "Failed" THEN "binder pod failed: " \o reason
    ELSE IF phase = "ImagePullBackOff" THEN "failed to pull image"
    ELSE ""

\* waitForBinderPod (volume.go:382-425): what one poll returns, "" to keep polling.
\* A poll under a cancelled context fails in Get or in the select after it.
waitForBinderPod(phase, reason) ==
    IF CtxErr THEN "context canceled"
    ELSE IF phase = "absent" THEN "failed to get binder pod"
    ELSE IF phase = "Succeeded" THEN "nil"
    ELSE IF phase = "Failed" THEN "binder pod failed: " \o reason
    ELSE IF phase = "ImagePullBackOff" THEN "failed to pull image"
    ELSE ""

\* waitForBinderPod(ctx, c, podName, 5*time.Minute) (volume.go:358); the
\* deadline can pass at any poll.
CreateWait ==
    /\ Alive /\ pc = "c_wait"
    /\ LET r == waitForBinderPod(pod[binderPodName], podReason[binderPodName])
           e == IF r = "" THEN "timeout waiting for volume binding" ELSE r
       IN /\ err' = e
          /\ pc' = IF e = "nil" THEN "c_s_unreg1" ELSE "c_check"
    /\ UNCHANGED <<extVars, auxVars, regVars, harnessVars, clusterVars, streamVars, obsVars,
                   opts, srcInfo, ret, ctxDone, sigStopped, hpc, exitCode>>

\* if cleanup.WasInterrupted() (volume.go:360): WaitForCleanupLock and
\* WaitForCleanupRecv are lines 361-362
CreateCheck ==
    /\ Alive /\ pc = "c_check"
    /\ pc' = IF WasInterrupted THEN "wfc" ELSE "c_f_unreg1"
    /\ UNCHANGED <<extVars, auxVars, regVars, harnessVars, clusterVars, streamVars, obsVars,
                   opts, srcInfo, err, ret, ctxDone, sigStopped, hpc, exitCode>>

\* binding failed: cleanup.Unregister() for the binder pod (volume.go:365)
CreateFailUnregisterPod ==
    /\ Alive /\ pc = "c_f_unreg1"
    /\ Unregister
    /\ pc' = "c_f_unreg2"
    /\ UNCHANGED <<extVars, auxVars, interrupted, done, fns, snap, ran, runLog, harnessVars, clusterVars,
                   streamVars, obsVars, opts, srcInfo, err, ret, ctxDone, sigStopped, hpc, exitCode>>

\* binding failed: cleanup.Unregister() for the PVC (volume.go:366)
CreateFailUnregisterPVC ==
    /\ Alive /\ pc = "c_f_unreg2"
    /\ Unregister
    /\ pc' = "c_f_delPod"
    /\ UNCHANGED <<extVars, auxVars, interrupted, done, fns, snap, ran, runLog, harnessVars, clusterVars,
                   streamVars, obsVars, opts, srcInfo, err, ret, ctxDone, sigStopped, hpc, exitCode>>

\* binding failed: delete the binder pod with ctx (volume.go:367)
CreateFailDeletePod ==
    /\ Alive /\ pc = "c_f_delPod"
    /\ DeleteWithCtx("main", Pod(binderPodName))
    /\ pc' = "c_f_delPVC"
    /\ UNCHANGED <<extVars, auxVars, regVars, harnessVars, wsNodeGroup, streamVars, created, sigPhase,
                   opts, srcInfo, err, ret, ctxDone, sigStopped, hpc, exitCode>>

\* binding failed: delete the PVC with ctx, return the error (volume.go:368-369)
CreateFailDeletePVC ==
    /\ Alive /\ pc = "c_f_delPVC"
    /\ DeleteWithCtx("main", PVC(createPVCName))
    /\ Return("volume binding failed", "failure")
    /\ UNCHANGED <<extVars, auxVars, regVars, harnessVars, wsNodeGroup, streamVars, created, sigPhase,
                   opts, srcInfo, err, ctxDone, sigStopped, hpc, exitCode>>

\* success: cleanup.Unregister() for the binder pod (volume.go:373)
CreateSuccessUnregisterPod ==
    /\ Alive /\ pc = "c_s_unreg1"
    /\ Unregister
    /\ pc' = "c_s_unreg2"
    /\ UNCHANGED <<extVars, auxVars, interrupted, done, fns, snap, ran, runLog, harnessVars, clusterVars,
                   streamVars, obsVars, opts, srcInfo, err, ret, ctxDone, sigStopped, hpc, exitCode>>

\* success: cleanup.Unregister() for the PVC (volume.go:374)
CreateSuccessUnregisterPVC ==
    /\ Alive /\ pc = "c_s_unreg2"
    /\ Unregister
    /\ pc' = "c_s_delPod"
    /\ UNCHANGED <<extVars, auxVars, interrupted, done, fns, snap, ran, runLog, harnessVars, clusterVars,
                   streamVars, obsVars, opts, srcInfo, err, ret, ctxDone, sigStopped, hpc, exitCode>>

\* success: delete the binder pod with ctx, return nil (volume.go:375, 378)
CreateSuccessDeletePod ==
    /\ Alive /\ pc = "c_s_delPod"
    /\ DeleteWithCtx("main", Pod(binderPodName))
    /\ Return("nil", "success")
    /\ UNCHANGED <<extVars, auxVars, regVars, harnessVars, wsNodeGroup, streamVars, created, sigPhase,
                   opts, srcInfo, err, ctxDone, sigStopped, hpc, exitCode>>

\* runCreateVolume after volume.Create returns (create.go:160-168): exitWithError
\* on an error, else the success message; the deferred cancel() follows.
RunCreateCheck ==
    /\ Alive /\ pc = "returned" /\ cmd = "create"
    /\ IF ret.val # "nil"
       THEN exitCode' = 1 /\ pc' = "exited" /\ UNCHANGED printed
       ELSE /\ printed' = printed \cup {"created successfully"}
            /\ pc' = "runcp_defer"
            /\ UNCHANGED exitCode
    /\ UNCHANGED <<cmd, copts, sigVars, calls, nameVars, auxVars, regVars, harnessVars, clusterVars,
                   streamVars, obsVars, opts, srcInfo, err, ret, ctxDone, sigStopped, hpc>>

(***************************************************************************)
(* Session and volume operations on one (node, volume): volume.Edit,       *)
(* volume.Run, volume.StopSession and volume.Delete, called one after the  *)
(* other (each `sgs` command makes one call, with context.Background()).   *)
(* The volume addressed is opts.SrcNode/opts.SrcVolume.                    *)
(***************************************************************************)

MaxCalls == 3

\* podName := sessionPodName(opts.NodeName, opts.VolumeName) (volume.go:568, 618, 873)
sessionPod == sessionPodName(opts.SrcNode, opts.SrcVolume)

\* Mutant of StillUsable: no existing pod is taken for usable.
StillUsableNever(phase) == FALSE

\* Phase == PodRunning || Phase == PodPending (volume.go:586, 636)
StillUsable(phase) == phase \in {"Running", "Pending", "ImagePullBackOff"}

\* The call of operation `op` returns `val`.
Result(val, op) == ret' = [val |-> val, via |-> op] /\ pc' = "idle"

\* The part Edit and Run share (volume.go:563-598, 613-648): node access, the
\* volume and its image, then the existing pod.
SessionGet(op, delpc, nextpc) ==
    IF ~CanAccessNode(wsNodeGroup, NodeGroupLabel[opts.SrcNode])
    THEN Result("cannot access node", op)
    ELSE IF ~pvc[srcPVCName].exists THEN Result("volume not found", op)
    ELSE IF AnnotationOSImage(pvc[srcPVCName]) = "" THEN Result("not an OS volume", op)
    ELSE IF pod[sessionPod] = "absent"
         THEN ret' = [val |-> "none", via |-> op] /\ pc' = nextpc
    ELSE IF StillUsable(pod[sessionPod]) THEN Result("Existing", op)
    ELSE ret' = [val |-> "none", via |-> op] /\ pc' = delpc

\* Pods.Create for the session pod (volume.go:602-607, 680-685): the server
\* refuses a name that is taken.
SessionCreate(op) ==
    \E accepted \in (IF pod[sessionPod] # "absent" THEN {FALSE} ELSE BOOLEAN) :
        /\ created' = [created EXCEPT ![Pod(sessionPod)] =
                           [sent |-> @.sent + 1, ok |-> accepted]]
        /\ IF accepted
           THEN pod' = [pod EXCEPT ![sessionPod] = "Pending"] /\ Result("Created", op)
           ELSE UNCHANGED pod /\ Result("create session", op)

\* Edit up to the look at the existing pod (volume.go:562-598)
EditGet ==
    /\ Alive /\ pc = "idle" /\ calls < MaxCalls
    /\ calls' = calls + 1
    /\ SessionGet("Edit", "edit_delete", "edit_create")
    /\ UNCHANGED <<cmdVars, sigVars, nameVars, auxVars, regVars, harnessVars, clusterVars, streamVars,
                   obsVars, opts, srcInfo, err, ctxDone, sigStopped, hpc, exitCode>>

\* Edit deletes the terminated pod (volume.go:590-594)
EditDelete ==
    /\ Alive /\ pc = "edit_delete"
    /\ ServeDelete("main", Pod(sessionPod))
    /\ pc' = "edit_create"
    /\ UNCHANGED <<extVars, auxVars, regVars, harnessVars, wsNodeGroup, streamVars, created, sigPhase,
                   opts, srcInfo, err, ret, ctxDone, sigStopped, hpc, exitCode>>

\* Edit creates the pod (volume.go:600-607)
EditCreate ==
    /\ Alive /\ pc = "edit_create"
    /\ SessionCreate("Edit")
    /\ UNCHANGED <<extVars, auxVars, regVars, harnessVars, pvc, wsNodeGroup, streamVars, dels, sigPhase,
                   opts, srcInfo, err, ctxDone, sigStopped, hpc, exitCode>>

\* Run up to the look at the existing pod (volume.go:612-648)
RunGet ==
    /\ Alive /\ pc = "idle" /\ calls < MaxCalls
    /\ calls' = calls + 1
    /\ SessionGet("Run", "run_delete", "run_resources")
    /\ UNCHANGED <<cmdVars, sigVars, nameVars, auxVars, regVars, harnessVars, clusterVars, streamVars,
                   obsVars, opts, srcInfo, err, ctxDone, sigStopped, hpc, exitCode>>

\* Run deletes the terminated pod (volume.go:640-644)
RunDelete ==
    /\ Alive /\ pc = "run_delete"
    /\ ServeDelete("main", Pod(sessionPod))
    /\ pc' = "run_resources"
    /\ UNCHANGED <<extVars, auxVars, regVars, harnessVars, wsNodeGroup, streamVars, created, sigPhase,
                   opts, srcInfo, err, ret, ctxDone, sigStopped, hpc, exitCode>>

\* GetNodeResources; a node without GPUs is refused (volume.go:650-657)
RunNodeResources ==
    /\ Alive /\ pc = "run_resources"
    /\ \E totalGPU \in {0, 1} :
          IF totalGPU = 0
          THEN Result("node has no GPUs available", "Run")
          ELSE pc' = "run_create" /\ UNCHANGED ret
    /\ UNCHANGED <<extVars, auxVars, regVars, harnessVars, clusterVars, streamVars, obsVars,
                   opts, srcInfo, err, ctxDone, sigStopped, hpc, exitCode>>

\* Run creates the pod (volume.go:678-685)
RunCreate ==
    /\ Alive /\ pc = "run_create"
    /\ SessionCreate("Run")
    /\ UNCHANGED <<extVars, auxVars, regVars, harnessVars, pvc, wsNodeGroup, streamVars, dels, sigPhase,
                   opts, srcInfo, err, ctxDone, sigStopped, hpc, exitCode>>

\* StopSession (volume.go:872-884)
StopSession ==
    /\ Alive /\ pc = "idle" /\ calls < MaxCalls
    /\ calls' = calls + 1
    /\ IF pod[sessionPod] = "absent"
       THEN RefuseDelete("main", Pod(sessionPod)) /\ Result("no session found", "StopSession")
       ELSE ServeDelete("main", Pod(sessionPod)) /\ Result("nil", "StopSession")
    /\ UNCHANGED <<cmdVars, sigVars, nameVars, auxVars, regVars, harnessVars, wsNodeGroup, streamVars,
                   created, sigPhase, opts, srcInfo, err, ctxDone, sigStopped, hpc, exitCode>>

\* Delete, the session check (volume.go:901-911); the Get of GetSessionMode
\* can fail for a reason other than NotFound (volume.go:521-526).
DeleteGetMode ==
    /\ Alive /\ pc = "idle" /\ calls < MaxCalls
    /\ calls' = calls + 1
    /\ \E getErr \in BOOLEAN :
          IF getErr THEN Result("check session status", "Delete")
          ELSE IF GetSessionMode(pod[sessionPod]) # ""
               THEN Result("cannot delete volume: active session exists", "Delete")
               ELSE ret' = [val |-> "none", via |-> "Delete"] /\ pc' = "del_pvc"
    /\ UNCHANGED <<cmdVars, sigVars, nameVars, auxVars, regVars, harnessVars, clusterVars, streamVars,
                   obsVars, opts, srcInfo, err, ctxDone, sigStopped, hpc, exitCode>>

\* Delete, the PVC (volume.go:913-919): NotFound is not an error.
DeletePVC ==
    /\ Alive /\ pc = "del_pvc"
    /\ IF pvc[srcPVCName].exists
       THEN ServeDelete("main", PVC(srcPVCName))
       ELSE RefuseDelete("main", PVC(srcPVCName))
    /\ Result("nil", "Delete")
    /\ UNCHANGED <<extVars, auxVars, regVars, harnessVars, wsNodeGroup, streamVars, created, sigPhase,
                   opts, srcInfo, err, ctxDone, sigStopped, hpc, exitCode>>

\* The kubelet runs the session pod: it starts, and its command can end.
SessionPhases(phase) ==
    IF phase = "Pending" THEN {"Running", "ImagePullBackOff", "Failed"}
    ELSE IF phase = "Running" THEN {"Succeeded", "Failed"}
    ELSE {}

SessionProgress ==
    /\ Alive
    /\ \E ph \in SessionPhases(pod[sessionPod]) : pod' = [pod EXCEPT ![sessionPod] = ph]
    /\ UNCHANGED <<extVars, auxVars, regVars, harnessVars, pvc, wsNodeGroup, procVars, streamVars,
                   obsVars>>

(***************************************************************************)
(* cleanup.InterruptibleContext: the signal goroutine                      *)
(***************************************************************************)

\* case <-sigCh (cleanup.go:90): one signal is sent to the process, delivered to
\* sigCh and received, in one step
Signal ==
    /\ Alive /\ hpc = "listen"
    /\ ~sigStopped
    /\ sigCh = 0
    /\ sigCount' = sigCount + 1
    /\ hpc' = "set"
    /\ sigPhase' = pc
    /\ UNCHANGED <<cmdVars, sigCh, sigIgnored, runAllCalls, calls, nameVars, auxVars, regVars, harnessVars, clusterVars, streamVars, created, dels,
                   opts, pc, srcInfo, err, ret, ctxDone, sigStopped, exitCode>>

\* Mutant of HandlerStop: the ctx.Done() case goes on to the cleanup as well.
HandlerStopRunsCleanup ==
    /\ Alive /\ hpc = "listen"
    /\ ctxDone
    /\ hpc' = "set"
    /\ sigStopped' = TRUE
    /\ UNCHANGED <<extVars, auxVars, regVars, harnessVars, clusterVars, streamVars, obsVars,
                   opts, pc, srcInfo, err, ret, ctxDone, exitCode>>

\* case <-ctx.Done(): signal.Stop(sigCh) (cleanup.go:105-107)
HandlerStop ==
    /\ Alive /\ hpc = "listen"
    /\ ctxDone
    /\ hpc' = "stopped"
    /\ sigStopped' = TRUE
    /\ UNCHANGED <<extVars, auxVars, regVars, harnessVars, clusterVars, streamVars, obsVars,
                   opts, pc, srcInfo, err, ret, ctxDone, exitCode>>

\* Mutant of HandlerSet: the context is cancelled at this point and the flag and
\* the channel are left unset.
HandlerSetCancelsFirst ==
    /\ Alive /\ hpc = "set"
    /\ ctxDone' = TRUE
    /\ hpc' = "cancel"
    /\ UNCHANGED <<extVars, auxVars, regVars, harnessVars, clusterVars, streamVars,
                   obsVars, opts, pc, srcInfo, err, ret, sigStopped, exitCode>>

\* interrupted = true; done = make(chan struct{}) under the mutex (cleanup.go:92-95)
HandlerSet ==
    /\ Alive /\ hpc = "set"
    /\ interrupted' = TRUE
    /\ done' = "open"
    /\ hpc' = "cancel"
    /\ UNCHANGED <<extVars, auxVars, cleanups, fns, snap, ran, runLog, harnessVars, clusterVars, streamVars,
                   obsVars, opts, pc, srcInfo, err, ret, ctxDone, sigStopped, exitCode>>

\* signal.Ignore; cancel() (cleanup.go:98-100)
HandlerCancel ==
    /\ Alive /\ hpc = "cancel"
    /\ sigIgnored' = TRUE
    /\ ctxDone' = TRUE
    /\ hpc' = "take"
    /\ UNCHANGED <<cmdVars, sigCh, sigCount, runAllCalls, calls, nameVars, auxVars, regVars, harnessVars, clusterVars, streamVars, obsVars,
                   opts, pc, srcInfo, err, ret, sigStopped, exitCode>>

\* RunAll(), locked part (cleanup.go:102, 43-47)
HandlerTake ==
    /\ Alive /\ hpc = "take"
    /\ RunAllTake("handler")
    /\ runAllCalls' = runAllCalls + 1
    /\ hpc' = "run"
    /\ UNCHANGED <<cmdVars, sigCh, sigCount, sigIgnored, calls, nameVars, auxVars, interrupted, done, runLog, harnessVars, clusterVars, streamVars,
                   obsVars, opts, pc, srcInfo, err, ret, ctxDone, sigStopped, exitCode>>

\* RunAll(), one cleanup function: a Delete with a fresh context
\* (cleanup.go:49-53; volume.go:1128-1135, 1238-1245, 1305-1312, 1325-1332)
HandlerRun ==
    /\ Alive /\ hpc = "run"
    /\ RunAllStep("handler")
    /\ ServeDelete("handler", fns["handler"][RunAllPick(fns["handler"])])
    /\ UNCHANGED <<extVars, auxVars, cleanups, interrupted, done, snap, harnessVars, wsNodeGroup, streamVars,
                   created, sigPhase, procVars>>

\* close(done) (cleanup.go:103)
HandlerClose ==
    /\ Alive /\ hpc = "run"
    /\ fns["handler"] = <<>>
    /\ done' = "closed"
    /\ hpc' = "exit"
    /\ UNCHANGED <<extVars, auxVars, cleanups, interrupted, fns, snap, ran, runLog, harnessVars, clusterVars,
                   streamVars, obsVars, opts, pc, srcInfo, err, ret, ctxDone, sigStopped, exitCode>>

\* os.Exit(1) (cleanup.go:104)
HandlerExit ==
    /\ Alive /\ hpc = "exit"
    /\ exitCode' = 1
    /\ hpc' = "exited"
    /\ UNCHANGED <<extVars, auxVars, regVars, harnessVars, clusterVars, streamVars, obsVars,
                   opts, pc, srcInfo, err, ret, ctxDone, sigStopped>>

(***************************************************************************)
(* os/signal beside the signal goroutine: arrival and receipt of a signal  *)
(* as two steps, for any number of signals                                 *)
(***************************************************************************)

MaxSignals == 2

\* exit status of a process the default action of SIGINT has ended
KilledBySignal == 130

\* A signal is sent to the process. While signal.Notify is in force
\* (cleanup.go:86) it is put into sigCh unless the buffer of one is full; after
\* signal.Ignore (cleanup.go:98) it is dropped; after signal.Stop alone
\* (cleanup.go:107, 112) the default action ends the process.
SigArrive ==
    /\ Alive /\ sigCount < MaxSignals
    /\ sigCount' = sigCount + 1
    /\ IF sigIgnored THEN UNCHANGED <<sigCh, exitCode>>
       ELSE IF sigStopped THEN exitCode' = KilledBySignal /\ UNCHANGED sigCh
       ELSE sigCh' = 1 /\ UNCHANGED exitCode
    /\ UNCHANGED <<cmdVars, sigIgnored, runAllCalls, calls, nameVars, auxVars, regVars, harnessVars,
                   clusterVars, streamVars, obsVars, opts, pc, srcInfo, err, ret, ctxDone,
                   sigStopped, hpc>>

\* case <-sigCh (cleanup.go:90): the select takes the buffered signal; when
\* ctx.Done() is ready as well, HandlerStop is the other choice of the select.
HandlerRecv ==
    /\ Alive /\ hpc = "listen"
    /\ sigCh = 1
    /\ sigCh' = 0
    /\ hpc' = "set"
    /\ sigPhase' = pc
    /\ UNCHANGED <<cmdVars, sigCount, sigIgnored, runAllCalls, calls, nameVars, auxVars, regVars,
                   harnessVars, clusterVars, streamVars, created, dels,
                   opts, pc, srcInfo, err, ret, ctxDone, sigStopped, exitCode>>

\* The command's work is over without an error: runCp or runCreateVolume
\* reaches its deferred cancel (set.go:122, create.go:139).
CommandReturns ==
    /\ Alive /\ pc = "validate"
    /\ pc' = "runcp_defer"
    /\ UNCHANGED <<extVars, auxVars, regVars, harnessVars, clusterVars, streamVars, obsVars,
                   opts, srcInfo, err, ret, ctxDone, sigStopped, hpc, exitCode>>

(***************************************************************************)
(* runCp after volume.Copy returns (internal/cmd/set.go)                   *)
(***************************************************************************)

\* if err != nil { if ctx.Err() != nil { return }; exitWithError } (set.go:149-156)
RunCpCheck ==
    /\ Alive /\ pc = "returned" /\ cmd = "cp"
    /\ IF ret.val # "nil" /\ ~ctxDone
       THEN exitCode' = 1 /\ pc' = "exited"
       ELSE pc' = "runcp_defer" /\ UNCHANGED exitCode
    /\ UNCHANGED <<extVars, auxVars, regVars, harnessVars, clusterVars, streamVars, obsVars,
                   opts, srcInfo, err, ret, ctxDone, sigStopped, hpc>>

\* defer cancel(): signal.Stop(sigCh); cancel() (set.go:122, cleanup.go:111-114)
RunCpCancel ==
    /\ Alive /\ pc = "runcp_defer"
    /\ sigStopped' = TRUE
    /\ ctxDone' = TRUE
    /\ pc' = "main_return"
    /\ UNCHANGED <<extVars, auxVars, regVars, harnessVars, clusterVars, streamVars, obsVars,
                   opts, srcInfo, err, ret, hpc, exitCode>>

\* runCp has returned: the command ends and the process exits 0
MainExit ==
    /\ Alive /\ pc = "main_return"
    /\ exitCode' = 0
    /\ pc' = "exited"
    /\ UNCHANGED <<extVars, auxVars, regVars, harnessVars, clusterVars, streamVars, obsVars,
                   opts, srcInfo, err, ret, ctxDone, sigStopped, hpc>>

(***************************************************************************)
(* The cluster runs the helper pods                                        *)
(***************************************************************************)

\* Phases the kubelet can move a helper pod to. The same-node pod runs cp and
\* ends (volume.go:1206-1207), the binder pod runs `true` and ends
\* (volume.go:465); the cross-node pods sleep (volume.go:1441-1442).
NextPhases(name, phase) ==
    IF phase = "Pending" THEN {"Running", "ImagePullBackOff", "Failed"}
    ELSE IF phase = "Running" /\ name \in {copyPodName, binderPodName}
         THEN {"Succeeded", "Failed"}
    ELSE {}

PodProgress ==
    /\ Alive
    /\ \E name \in {copyPodName, srcPodName, dstPodName, binderPodName} :
          \E ph \in NextPhases(name, pod[name]) :
              \E rs \in (IF ph = "Failed" THEN TerminatedReasons ELSE {""}) :
                  /\ pod' = [pod EXCEPT ![name] = ph]
                  /\ podReason' = [podReason EXCEPT ![name] = rs]
    /\ UNCHANGED <<extVars, mounts, delErr, regVars, harnessVars, pvc, wsNodeGroup, procVars, streamVars, obsVars>>

(***************************************************************************)
(* What the properties speak of                                            *)
(***************************************************************************)

Resources == DOMAIN dels
HelperPods == {Pod(copyPodName), Pod(srcPodName), Pod(dstPodName)}
DstPVC == PVC(dstPVCName)

Exists(r) == IF r.kind = "pvc" THEN pvc[r.name].exists ELSE pod[r.name] # "absent"
Deletes(r) == dels[r].main + dels[r].handler

\* pcs of the main goroutine after volume.Copy has returned
PostCopy == {"returned", "runcp_defer", "main_return", "exited"}
CopyReturned == ret.val # "none"
\* the signal was received while volume.Copy was running
InterruptedDuringCopy == sigPhase \notin ({"none"} \cup PostCopy)

\* The destination volume was there before Copy ran: Copy never creates over it
\* nor deletes it.
DstExisted == pvc[dstPVCName].exists /\ ~created[DstPVC].ok
SrcSessionActive == Active(pod[sessionPodName(opts.SrcNode, opts.SrcVolume)])
PreconditionViolated ==
    \/ ~CanAccessNode(wsNodeGroup, NodeGroupLabel[opts.DstNode])
    \/ ~pvc[srcPVCName].exists
    \/ SrcSessionActive
    \/ DstExisted

(***************************************************************************)
(* Specifications                                                          *)
(***************************************************************************)

Next ==
    \/ CopyValidate \/ CopyGetSrc \/ CopyGetMode \/ CopyGetDst
    \/ CopyCreatePVC \/ CopyRegisterPVC
    \/ SnCreatePod \/ SnRegister \/ SnWait \/ SnDeferUnregister \/ SnDeferDelete
    \/ CnCreateSrc \/ CnRegisterSrc \/ CnCreateDst \/ CnRegisterDst
    \/ CnWaitSrc \/ CnWaitDst \/ CnStart \/ CnJoin
    \/ CnDeferDstUnregister \/ CnDeferDstDelete
    \/ CnDeferSrcUnregister \/ CnDeferSrcDelete
    \/ SrcWrite \/ DstRead \/ SrcReturn \/ SrcSend \/ SrcClose \/ DstReturn \/ DstSend
    \/ CopyCheck \/ WaitForCleanupLock \/ WaitForCleanupRecv
    \/ CopyFailUnregister \/ CopyFailDelete \/ CopySuccessUnregister
    \/ RunCpCheck \/ RunCpCancel \/ MainExit
    \/ Signal \/ HandlerStop \/ HandlerSet \/ HandlerCancel
    \/ HandlerTake \/ HandlerRun \/ HandlerClose \/ HandlerExit
    \/ PodProgress

Spec == Init /\ [][Next]_vars

\* SpecReg keeps the copy process where Init leaves it.
InitReg ==
    /\ Init
    /\ opts.DstVolume = "b" /\ pvc[srcPVCName].exists /\ ~pvc[dstPVCName].exists
    /\ pvc[srcPVCName].size = 512 /\ pvc[srcPVCName].ann = <<>>
    /\ pod[sessionPodName(opts.SrcNode, opts.SrcVolume)] = "absent" /\ wsNodeGroup = ""

NextReg ==
    \E t \in HarnessThreads :
        \/ CallRegister(t)
        \/ CallUnregister(t)
        \/ CallRunAll(t)
        \/ RunAllInvoke(t)
        \/ RunAllReturn(t)

SpecReg == InitReg /\ [][NextReg]_vars

\* SpecSess: a sequence of at most MaxCalls calls of Edit, Run, StopSession and
\* Delete on the volume n1/a, beside the kubelet.
InitSess ==
    /\ InitRegistry /\ InitHarness /\ InitCopy /\ InitExt
    /\ cmd = "session"
    /\ pc = "idle"
    /\ opts.DstNode = "n1" /\ opts.DstVolume = "b" /\ ~pvc[dstPVCName].exists
    /\ copts = [NodeName |-> opts.DstNode, VolumeName |-> opts.DstVolume, Image |-> "",
                Size |-> DefaultStorageSize]

NextSess ==
    \/ EditGet \/ EditDelete \/ EditCreate
    \/ RunGet \/ RunDelete \/ RunNodeResources \/ RunCreate
    \/ StopSession
    \/ DeleteGetMode \/ DeletePVC
    \/ SessionProgress

SpecSess == InitSess /\ [][NextSess]_vars

\* SpecCmd: one process running either `sgs cp` or `sgs create volume n1/b`
\* (runCreateVolume, create.go:128-169), with or without an image.
InitCreate ==
    /\ InitRegistry /\ InitHarness /\ InitCopy /\ InitExt
    /\ cmd = "create"
    /\ pc = "c_validate"
    /\ opts.DstNode = "n1" /\ opts.DstVolume = "b"
    /\ pvc[srcPVCName].exists /\ pvc[srcPVCName].size = 512
    /\ pod[sessionPodName(opts.SrcNode, opts.SrcVolume)] = "absent"
    /\ \E image \in SrcImages :
          copts = [NodeName |-> opts.DstNode, VolumeName |-> opts.DstVolume,
                   Image |-> image, Size |-> DefaultStorageSize]

NextCreate ==
    \/ CreateValidate \/ CreatePVC \/ CreateRegisterPVC \/ CreateBinderPod
    \/ CreatePodFailUnregister \/ CreatePodFailDelete
    \/ CreateRegisterPod \/ CreateWait \/ CreateCheck
    \/ CreateFailUnregisterPod \/ CreateFailUnregisterPVC
    \/ CreateFailDeletePod \/ CreateFailDeletePVC
    \/ CreateSuccessUnregisterPod \/ CreateSuccessUnregisterPVC \/ CreateSuccessDeletePod
    \/ RunCreateCheck

SpecCmd == (Init \/ InitCreate) /\ [][Next \/ NextCreate]_vars

\* SpecCreate: the `sgs create volume` runs of SpecCmd alone, with what they
\* share with `sgs cp`: WaitForCleanup, the deferred cancel, the signal
\* goroutine and the kubelet.
NextShared ==
    \/ WaitForCleanupLock \/ WaitForCleanupRecv
    \/ RunCpCancel \/ MainExit
    \/ Signal \/ HandlerStop \/ HandlerSet \/ HandlerCancel
    \/ HandlerTake \/ HandlerRun \/ HandlerClose \/ HandlerExit
    \/ PodProgress

SpecCreate == InitCreate /\ [][NextCreate \/ NextShared]_vars

\* SpecWait: a caller of cleanup.WaitForCleanup beside the signal goroutine.
\* The caller registers teardowns (of the volume and the pod a same-node copy
\* provisions), then calls WaitForCleanup (cleanup.go:65-76) whether or not a
\* signal has arrived.
WaitRegister ==
    /\ Alive /\ pc = "validate"
    /\ Len(cleanups) < MaxReg
    /\ \E r \in {DstPVC, Pod(copyPodName)} : Register(r)
    /\ UNCHANGED <<extVars, interrupted, done, fns, snap, ran, runLog, harnessVars, copyVars>>

WaitCall ==
    /\ Alive /\ pc = "validate"
    /\ pc' = "wfc"
    /\ UNCHANGED <<extVars, auxVars, regVars, harnessVars, clusterVars, streamVars, obsVars,
                   opts, srcInfo, err, ret, ctxDone, sigStopped, hpc, exitCode>>

NextWait ==
    \/ WaitRegister \/ WaitCall
    \/ WaitForCleanupLock \/ WaitForCleanupRecv
    \/ Signal \/ HandlerSet \/ HandlerCancel
    \/ HandlerTake \/ HandlerRun \/ HandlerClose \/ HandlerExit

SpecWait == InitReg /\ [][NextWait]_vars

\* SpecNames: pvcName and sessionPodName applied to two (node name, volume name)
\* pairs. The components are non-empty, as ParseVolumePath requires
\* (volume.go:105-111), and may hold "-", which nothing forbids.
NodeNames == {"a", "a-b", "b"}
VolumeNames == {"c", "b-c", "b"}

InitNames ==
    /\ InitRegistry /\ InitHarness /\ InitCopy
    /\ printed = {} /\ sigCh = 0 /\ sigCount = 0 /\ sigIgnored = FALSE
    /\ runAllCalls = 0 /\ calls = 0
    /\ cmd = "names"
    /\ pc = "idle"
    /\ opts.DstNode = "n1" /\ opts.DstVolume = "b" /\ ~pvc[dstPVCName].exists
    /\ pvc[srcPVCName].exists /\ pvc[srcPVCName].size = 512
    /\ pod[sessionPod] = "absent" /\ wsNodeGroup = ""
    /\ copts = [NodeName |-> opts.DstNode, VolumeName |-> opts.DstVolume, Image |-> "",
                Size |-> DefaultStorageSize]
    /\ args \in (NodeNames \X VolumeNames) \X (NodeNames \X VolumeNames)
    /\ names = <<>>

\* name := pvcName(nodeName, volumeName); podName := sessionPodName(nodeName,
\* volumeName) (volume.go:568-569, 618-619, 873, 902), for both pairs
ApplyNames ==
    /\ names = <<>>
    /\ names' = [i \in {1, 2} |->
                    [pvc |-> pvcName(args[i][1], args[i][2]),
                     pod |-> sessionPodName(args[i][1], args[i][2])]]
    /\ UNCHANGED <<cmdVars, sigVars, calls, args, regVars, harnessVars, copyVars>>

NextNames == ApplyNames

SpecNames == InitNames /\ [][NextNames]_vars

\* SpecLive: one cross-node copy n1/a -> n2/a that no signal interrupts, under
\* fairness: the Go scheduler runs every goroutine that can take a step, and an
\* exec stream that can complete or fail eventually does.
InitLive ==
    /\ Init
    /\ opts.DstNode = "n2" /\ pvc[srcPVCName].exists /\ ~pvc[dstPVCName].exists
    /\ pvc[srcPVCName].size = 512
    /\ pod[sessionPodName(opts.SrcNode, opts.SrcVolume)] = "absent" /\ wsNodeGroup = ""

MainLive ==
    \/ CopyValidate \/ CopyGetSrc \/ CopyGetMode \/ CopyGetDst
    \/ CopyCreatePVC \/ CopyRegisterPVC
    \/ CnCreateSrc \/ CnRegisterSrc \/ CnCreateDst \/ CnRegisterDst
    \/ CnWaitSrc \/ CnWaitDst \/ CnStart \/ CnJoin
    \/ CnDeferDstUnregister \/ CnDeferDstDelete
    \/ CnDeferSrcUnregister \/ CnDeferSrcDelete
    \/ CopyCheck \/ CopyFailUnregister \/ CopyFailDelete \/ CopySuccessUnregister
    \/ RunCpCheck \/ RunCpCancel \/ MainExit

SrcLive == SrcWrite \/ SrcReturn \/ SrcSend \/ SrcClose

DstLive == DstRead \/ DstReturn \/ DstSend

NextLive == MainLive \/ SrcLive \/ DstLive \/ HandlerStop \/ PodProgress

FairLive == WF_vars(MainLive) /\ WF_vars(SrcLive) /\ WF_vars(DstLive)

SpecLive == InitLive /\ [][NextLive]_vars /\ FairLive

\* SpecSig: a command under InterruptibleContext that registers teardowns and
\* then returns, while up to MaxSignals signals are sent to the process.
InitSig ==
    /\ InitRegistry /\ InitHarness /\ InitCopy /\ InitExt
    /\ cmd = "signals"
    /\ pc = "validate"
    /\ opts.DstNode = "n1" /\ opts.DstVolume = "b" /\ ~pvc[dstPVCName].exists
    /\ pvc[srcPVCName].exists /\ pvc[srcPVCName].size = 512
    /\ pod[sessionPod] = "absent" /\ wsNodeGroup = ""
    /\ copts = [NodeName |-> opts.DstNode, VolumeName |-> opts.DstVolume, Image |-> "",
                Size |-> DefaultStorageSize]

NextSig ==
    \/ WaitRegister \/ CommandReturns \/ RunCpCancel \/ MainExit
    \/ SigArrive \/ HandlerRecv \/ HandlerStop \/ HandlerSet \/ HandlerCancel
    \/ HandlerTake \/ HandlerRun \/ HandlerClose \/ HandlerExit

SpecSig == InitSig /\ [][NextSig]_vars

(***************************************************************************)
(* Properties of the copy protocol (specification Spec)                    *)
(***************************************************************************)

\* C1: in every execution of Copy, with the signal arriving at any point, no
\* resource (destination volume or helper pod) has a delete request issued for
\* it more than once, whether by the procedure's own path or by the handler's RunAll.
C1_NoResourceDeletedTwice == \A r \in Resources : Deletes(r) <= 1

\* C2: when the signal arrived while Copy ran and Copy did not take its success
\* path, then at process exit nothing that this Copy created is left behind: every
\* storage object and helper pod it created has had a delete issued.
C2_NothingLeftBehindAtExit ==
    (~Alive /\ InterruptedDuringCopy /\ ret.via # "success")
        => \A r \in Resources : created[r].ok => ~Exists(r)

\* C3: when Copy takes its success path the destination volume is never deleted
\* by the registry teardown, an interrupt-driven RunAll included.
C3_SuccessKeepsDestination ==
    ret.via = "success" => dels[DstPVC].handler = 0

\* C4: a Copy interrupted while the cross-node streaming phase is in progress
\* returns nil only after the handler's teardown has completed; the registry is
\* then empty and the destination volume deleted.
C4_QuietReturnAfterTeardown ==
    (sigPhase = "cn_join" /\ ret.val = "nil")
        => (done = "closed" /\ cleanups = <<>> /\ ~Exists(DstPVC))

\* C4, on the path that observes the interrupt: returning through WaitForCleanup
\* happens after the teardown (not the claim: it leaves out the success path).
C4_InterruptPathOnly ==
    (sigPhase = "cn_join" /\ ret.via = "interrupt")
        => (done = "closed" /\ cleanups = <<>> /\ ~Exists(DstPVC))

PodFailures ==
    {"failed to create source pod", "failed to create destination pod", "pod failed",
     "failed to pull image", "timeout waiting for pod to start"}

C10_MetadataCloned ==
    (ret.via = "success" /\ Exists(DstPVC))
        => /\ pvc[dstPVCName].size = pvc[srcPVCName].size
           /\ pvc[dstPVCName].ann = pvc[srcPVCName].ann

\* C10 witness: an OS volume whose size is spelled in Gi was copied.
C10_Witness ==
    /\ ret.via = "success" /\ Exists(DstPVC)
    /\ pvc[srcPVCName].ann # <<>>
    /\ QuantityString(pvc[srcPVCName].size)[2] = "Gi"

\* resource r has an entry in the registry
Registered(r) == \E i \in 1..Len(cleanups) : cleanups[i] = r

\* the helper pods a copy between these nodes is to create
ExpectedPods ==
    IF opts.SrcNode = opts.DstNode THEN {Pod(copyPodName)}
    ELSE {Pod(srcPodName), Pod(dstPodName)}

\* C11: a successful same-node Copy has created exactly one helper pod, a
\* successful cross-node Copy exactly two (source and destination pod); when Copy
\* returns every helper pod is deleted and has no registry entry, and the
\* destination volume exists.
C11_SuccessfulCopyHelperPods ==
    ret.via = "success" =>
        /\ {r \in HelperPods : created[r].sent > 0} = ExpectedPods
        /\ \A r \in HelperPods : created[r].sent <= 1 /\ ~Exists(r) /\ ~Registered(r)
        /\ Exists(DstPVC)

\* C11, when no signal is received while Copy runs (not the claim: it leaves out
\* the interrupted executions).
C11_WithoutInterrupt ==
    (ret.via = "success" /\ ~InterruptedDuringCopy) =>
        /\ {r \in HelperPods : created[r].sent > 0} = ExpectedPods
        /\ \A r \in HelperPods : created[r].sent <= 1 /\ ~Exists(r) /\ ~Registered(r)
        /\ Exists(DstPVC)

\* C12: on every teardown path, whenever a delete of the destination volume is
\* issued no helper pod of this Copy exists any more: the pods that mount the
\* volume are deleted before the volume is.
C12_PodsDeletedBeforeVolume ==
    [][ (dels'[DstPVC] # dels[DstPVC]) => \A r \in HelperPods : ~Exists(r) ]_vars

\* C13: once the interrupt has been received (WasInterrupted() is true) the main
\* goroutine (Copy, copySameNode, copyCrossNode) issues no delete of its own; every
\* later delete comes from the handler's RunAll.
C13_NoOwnTeardownAfterInterrupt ==
    [][ WasInterrupted => \A r \in Resources : dels'[r].main = dels[r].main ]_vars

\* C14: the destination volume ends either persisted (the copy succeeded, its
\* entry unregistered) or deleted (its entry consumed): when the process has
\* exited, a destination volume this Copy created has no registry entry left, and
\* it exists only if Copy took its success path. (A cleanup delete the server
\* failed is left out.)
C14_DestinationTerminalStates ==
    (~Alive /\ created[DstPVC].ok /\ delErr # "delete failed") =>
        /\ ~Registered(DstPVC)
        /\ Exists(DstPVC) => ret.via = "success"

\* a stream goroutine has delivered its result
SrcFinished == spc \in {"close", "done"}
DstFinished == dpc = "done"
\* copyCrossNode has started its streams and has left the join loop
CrossNodeReturning == spc # "idle" /\ pc \notin {"cn_start", "cn_join"}

\* C15: copyCrossNode does not return, on success or on failure, until both of
\* its streaming tasks have finished.
C15_JoinsBothStreams == CrossNodeReturning => (SrcFinished /\ DstFinished)

\* C15, on success only (not the claim: it leaves out the failure return).
C15_SuccessJoinsBoth ==
    (CrossNodeReturning /\ err = "nil") => (SrcFinished /\ DstFinished)

\* C16: when the copy procedure fails and no signal is received while Copy runs,
\* Copy has, when it returns, removed the destination volume's registry entry,
\* issued exactly one delete for the destination volume, and returned the copy
\* procedure's error unchanged, whether the cleanup delete succeeded or failed.
C16_FailureReturnsOriginalError ==
    (CopyReturned /\ err # "nil" /\ ~InterruptedDuringCopy) =>
        /\ ret.val = err /\ ret.via = "failure"
        /\ ~Registered(DstPVC)
        /\ dels[DstPVC].main = 1 /\ dels[DstPVC].handler = 0
        /\ delErr \in {"nil", "delete failed"}

\* C16 witness: Copy has returned the stream error although its cleanup delete failed.
C16_Witness ==
    /\ pc = "returned" /\ sigPhase = "none"
    /\ err = "copy stream failed" /\ ret.val = err
    /\ delErr = "delete failed" /\ Exists(DstPVC)

EntriesFor(r) == Cardinality({i \in 1..Len(cleanups) : cleanups[i] = r})
TakenFor(r) == Cardinality({i \in 1..Len(snap["handler"]) : snap["handler"][i] = r})

\* C19: when a create request for a helper pod is sent, exactly one registry entry
\* for the destination volume exists; when the streams start, it has been
\* registered exactly once (it is in the registry or the handler took it); and a
\* Copy whose creation of the destination volume failed leaves the registry empty.
C19_RegisteredBeforeHelpers ==
    [][ /\ (\E r \in HelperPods : created'[r].sent # created[r].sent)
              => EntriesFor(DstPVC) = 1
        /\ (spc = "idle" /\ spc' # "idle")
              => EntriesFor(DstPVC) + TakenFor(DstPVC) = 1
        /\ (ret'.via = "create") => cleanups' = <<>> ]_vars

\* C19 witness: the copy pod has been created while the registry holds the one
\* entry of the destination volume.
C19_Witness ==
    /\ pc = "sn_register" /\ created[Pod(copyPodName)].ok
    /\ cleanups = <<DstPVC>>

C5_RunAllReverseOrder ==
    \A t \in HarnessThreads :
        (tpc[t] = "running" /\ unregCount = 0 /\ runAllCount = 1)
            => LET k == (nextId - 1) - Cardinality(regAfter[t])
               IN /\ Len(ran[t]) + Len(fns[t]) = k
                  /\ \A i \in 1..Len(ran[t]) : ran[t][i] = k - i + 1

\* C5 witness: three functions registered, RunAll has run all three.
C5_Witness ==
    \E t \in HarnessThreads :
        /\ tpc[t] = "running" /\ unregCount = 0 /\ runAllCount = 1
        /\ fns[t] = <<>> /\ Len(ran[t]) = MaxReg

\* C6: across interleavings of Register, Unregister and RunAll from two threads,
\* every registered function is run at most once and by at most one RunAll, and a
\* function registered after a RunAll took its snapshot is not run by that RunAll.
C6_RunAllTakesOwnership ==
    /\ \A i, j \in 1..Len(runLog) : (i # j) => runLog[i].fn # runLog[j].fn
    /\ \A t \in HarnessThreads :
          tpc[t] = "running" => \A i \in 1..Len(ran[t]) : ran[t][i] \notin regAfter[t]

\* C6 witness: two RunAll calls by different threads have each run a function, and
\* a function was registered while one of them was running.
C6_Witness ==
    /\ \E i, j \in 1..Len(runLog) : runLog[i].by # runLog[j].by
    /\ \E t \in HarnessThreads : tpc[t] = "running" /\ regAfter[t] # {} /\ ran[t] # <<>>

\* C7: Unregister removes exactly the last entry and leaves the earlier ones and
\* their order as they were; on an empty registry it changes nothing.
C7_UnregisterRemovesLast ==
    lastOp.op = "Unregister"
        => /\ Len(cleanups) = (IF Len(lastOp.before) = 0 THEN 0 ELSE Len(lastOp.before) - 1)
           /\ \A i \in 1..Len(cleanups) : cleanups[i] = lastOp.before[i]

\* C7 witness: Unregister was called on a registry of at least two entries.
C7_Witness == lastOp.op = "Unregister" /\ Len(lastOp.before) >= 2

(***************************************************************************)
(* Properties of WaitForCleanup (specification SpecWait)                   *)
(***************************************************************************)

\* C18: WaitForCleanup called when no interrupt has been received returns at
\* once, without waiting for anything; called after the interrupt it returns only
\* when the handler's RunAll has run every teardown it took and the handler has
\* closed the done channel.
C18_WaitForCleanupBlocks ==
    [][ /\ (pc = "wfc" /\ ~interrupted /\ pc' # pc) => pc' = "returned"
        /\ (pc \in {"wfc", "wfc_recv"} /\ interrupted /\ pc' = "returned")
              => /\ done = "closed" /\ hpc \in {"exit", "exited"}
                 /\ fns["handler"] = <<>>
                 /\ Len(ran["handler"]) = Len(snap["handler"]) ]_vars

\* C18 witness: WaitForCleanup has returned after a RunAll that ran two teardowns.
C18_Witness ==
    /\ pc = "returned" /\ interrupted /\ done = "closed"
    /\ Len(ran["handler"]) >= 2

(***************************************************************************)
(* Properties of the session and volume operations (specification SpecSess) *)
(***************************************************************************)

SessionVolume == PVC(srcPVCName)
\* this step is the first step of a call of operation `op`
Calls(op) == calls' = calls + 1 /\ ret'.via = op

WaitPCs == {"sn_wait", "cn_waitSrc", "cn_waitDst", "c_wait"}

\* C23: once the context is cancelled, every blocking wait of the copy and
\* create paths (waitForPodRunning, waitForCopyPod, waitForBinderPod) ends at
\* its next poll with the cancellation error: whatever the pod's phase, a poll
\* under the cancelled context neither keeps polling until the timeout nor
\* reports success, and the wait hands the error to its caller.
C23_WaitsObserveCancellation ==
    [][ /\ ctxDone =>
              /\ waitForCopyPod(pod[copyPodName]) = "context canceled"
              /\ waitForPodRunning(pod[srcPodName]) = "context canceled"
              /\ waitForPodRunning(pod[dstPodName]) = "context canceled"
              /\ waitForBinderPod(pod[binderPodName], podReason[binderPodName])
                     = "context canceled"
        /\ (pc \in WaitPCs /\ ctxDone /\ pc' # pc) =>
              /\ err' = "context canceled"
              /\ pc' \in {"sn_defer_unreg", "cn_d2_unreg", "c_check"} ]_vars

\* waitForBinderPod returned the cancellation error while the binder pod was
\* still pending, after the signal goroutine cancelled the context.
C23_Witness ==
    /\ cmd = "create" /\ pc = "c_check"
    /\ err = "context canceled"
    /\ sigPhase = "c_wait"
    /\ pod[binderPodName] = "Pending"

\* C25: when a command running under InterruptibleContext is interrupted and
\* its Copy or Create returns nil after WaitForCleanup, the process ends only
\* by the signal goroutine's os.Exit(1), after RunAll has run every function
\* it took and done was closed: the main goroutine does not end the process
\* with exit code 0 first.
C25_InterruptExitsOneAfterCleanup ==
    (~Alive /\ InterruptedDuringCopy /\ ret = [val |-> "nil", via |-> "interrupt"]) =>
        /\ exitCode = 1
        /\ hpc = "exited" /\ done = "closed" /\ fns["handler"] = <<>>

\* pcs at which the main goroutine calls cleanup.Register and cleanup.Unregister
RegisterPCs == {"regPVC", "sn_register", "cn_regSrc", "cn_regDst", "c_regPVC", "c_regPod"}
UnregisterPCs == {"f_unreg", "s_unreg", "sn_defer_unreg", "cn_d2_unreg", "cn_d1_unreg",
                  "c_pf_unreg", "c_f_unreg1", "c_f_unreg2", "c_s_unreg1", "c_s_unreg2"}

\* C26: while no interrupt has been received, every Register of Copy and Create
\* adds one entry, every Unregister they call removes one entry that the call
\* itself registered (the list is not empty when it is called), and every
\* return of Copy and of Create leaves the registry as it was on entry, empty:
\* each Register is matched by exactly one Unregister on every success and
\* failure path.
C26_RegistryBalanced ==
    [][ sigPhase' = "none" =>
          /\ (pc \in RegisterPCs /\ pc' # pc) => Len(cleanups') = Len(cleanups) + 1
          /\ (pc \in UnregisterPCs /\ pc' # pc) =>
                 cleanups # <<>> /\ cleanups' = Front(cleanups)
          /\ (pc # "returned" /\ pc' = "returned") => cleanups' = <<>> ]_vars

\* Create returned the error of a failed binder pod creation, with the volume
\* created and its teardown unregistered again, and no interrupt.
C26_Witness ==
    /\ cmd = "create" /\ pc = "returned"
    /\ ret = [val |-> "create volume binding", via |-> "failure"]
    /\ created[PVC(createPVCName)].ok
    /\ created[Pod(binderPodName)].sent = 1 /\ ~created[Pod(binderPodName)].ok
    /\ cleanups = <<>>
    /\ sigPhase = "none"

\* Copy returned the error of a failed creation of the second cross-node helper
\* pod, with both earlier registrations unregistered again, and no interrupt.
C26_SecondPodFailureReached ==
    /\ cmd = "cp" /\ pc = "returned"
    /\ ret.val = "failed to create destination pod"
    /\ created[Pod(srcPodName)].ok /\ ~created[Pod(dstPodName)].ok
    /\ cleanups = <<>>
    /\ sigPhase = "none"

\* C28: the signal goroutine sets the interrupted flag and makes the done
\* channel before it cancels the context: whenever Copy or Create is still
\* running under a cancelled context (the cancellation can then only be the
\* signal goroutine's), WasInterrupted() is true and done is a channel, and a
\* caller blocked in WaitForCleanup has a channel to receive from.
C28_FlagSetBeforeCancel ==
    /\ (ctxDone /\ pc \notin PostCopy) => (WasInterrupted /\ done # "nil")
    /\ pc = "wfc_recv" => done # "nil"

\* Copy got the cancellation error from a wait, saw WasInterrupted() and now
\* waits on the channel the signal goroutine has not closed yet.
C28_Witness ==
    /\ cmd = "cp" /\ pc = "wfc_recv"
    /\ err = "context canceled"
    /\ interrupted /\ done = "open"

\* C30: an OS-volume creation that is interrupted while Create waits for the
\* binder pod is never reported as successful: when the signal was received
\* during waitForBinderPod and the signal goroutine's teardown has deleted the
\* volume, runCreateVolume has not printed the 'created successfully' message.
C30_InterruptedCreateNotReported ==
    (/\ cmd = "create" /\ copts.Image # ""
     /\ sigPhase = "c_wait"
     /\ dels[PVC(createPVCName)].handler >= 1 /\ ~pvc[createPVCName].exists) =>
        "created successfully" \notin printed

(***************************************************************************)
(* Properties of InterruptibleContext under several signals (SpecSig)       *)
(***************************************************************************)

\* The context was cancelled normally first: the deferred cancel has run
\* (signal.Stop, then cancel) with no signal received or waiting in sigCh, and
\* the signal goroutine has not called RunAll.
CancelledNormallyFirst ==
    /\ ctxDone /\ sigStopped
    /\ hpc \in {"listen", "stopped"} /\ sigCh = 0
    /\ runAllCalls = 0

\* C24: within one process the signal goroutine of InterruptibleContext calls
\* RunAll at most once however many signals are sent, and once the context has
\* been cancelled normally first, it stays so whatever signals follow: the
\* signal goroutine never calls RunAll.
C24_RunAllAtMostOnce ==
    [][ /\ runAllCalls' <= 1
        /\ CancelledNormallyFirst => CancelledNormallyFirst' ]_vars

\* Several signals were sent, RunAll ran once and the process was ended by the
\* signal goroutine.
C24_Witness ==
    /\ sigCount >= 2
    /\ runAllCalls = 1
    /\ hpc = "exited" /\ exitCode = 1

\* The command returned and cancelled the context before any signal, and a
\* signal sent afterwards ended the process without the cleanup running.
C24_NormalCancelReached ==
    /\ CancelledNormallyFirst
    /\ sigCount >= 1 /\ exitCode = KilledBySignal

(***************************************************************************)
(* Termination of the cross-node streaming phase (specification SpecLive)   *)
(***************************************************************************)

\* C27: under fairness (every goroutine that can step does, every exec stream
\* that can complete or fail does), whenever copyCrossNode is in its join loop
\* it eventually leaves it and returns, also when the destination stream ends,
\* with or without an error, while the source goroutine is blocked writing into
\* the pipe, and when the source ends before the destination has read all.
C27_StreamingTerminates == (pc = "cn_join") ~> (pc # "cn_join")

\* The hang: the destination stream has ended without an error and its result
\* was received, the source goroutine is blocked in pw.Write with nobody left
\* to read the pipe, and the join loop waits for the second result.
C27_SourceBlockedForever ==
    /\ pc = "cn_join" /\ joined = 1 /\ errChan = <<>>
    /\ dpc = "done"
    /\ spc = "writing" /\ pipe = "data"
    /\ ~ctxDone

(***************************************************************************)
(* The name functions (specification SpecNames)                             *)
(***************************************************************************)

\* C29: pvcName and sessionPodName are injective on pairs with non-empty
\* components: two different (node name, volume name) pairs never get the same
\* storage-object name nor the same session-pod name.
C29_NamesInjective ==
    (names # <<>> /\ args[1] # args[2]) =>
        /\ names[1].pvc # names[2].pvc
        /\ names[1].pod # names[2].pod

\* The collision: node "a-b" with volume "c", and node "a" with volume "b-c".
C29_Collision ==
    /\ names # <<>>
    /\ args = <<(<<"a-b", "c">>), (<<"a", "b-c">>)>>
    /\ names[1] = names[2]
    /\ names[1].pvc = "a-b-c"

====
